---- MODULE Spec2Model ----
(***************************************************************************)
(* Pattern Evaluation Engine: the Judge (exact / json / regex, strict and  *)
(* lenient), the metrics accumulators and the PatternEvaluator loop.       *)
(*                                                                         *)
(* Strings are sequences of one-character strings; str(None) is "None".    *)
(* Optional values are records [some |-> BOOLEAN, v |-> value].            *)
(***************************************************************************)
EXTENDS Integers, Sequences, FiniteSets, TLC

\* ------------------------------------------------------------------------
\* Bounds
\* ------------------------------------------------------------------------

\* longest output string enumerated exhaustively over ShortAlphabet
MaxLen == 3

\* largest denominator of the success rates enumerated for calculate_degradation
RateDen == 10

\* most tasks in a suite handed to evaluate_pattern
MaxTasks == 4

\* most patterns in a mapping handed to compare_patterns or evaluate_multiple_patterns
MaxPatterns == 2

\* most samples in a list of an EfficiencyMetrics under test
MaxSamples == 3

\* ------------------------------------------------------------------------
\* Python str primitives
\* ------------------------------------------------------------------------

None == [some |-> FALSE, v |-> <<>>]

Some(x) == [some |-> TRUE, v |-> x]

Min(S) == CHOOSE x \in S : \A y \in S : x <= y

Max(S) == CHOOSE x \in S : \A y \in S : x >= y

Digits == {"0", "1", "2", "3", "4", "5", "6", "7", "8", "9"}

UpperChars == <<"A", "B", "C", "D", "E", "F", "G", "H", "I", "J", "K", "L", "M",
                "N", "O", "P", "Q", "R", "S", "T", "U", "V", "W", "X", "Y", "Z">>

LowerChars == <<"a", "b", "c", "d", "e", "f", "g", "h", "i", "j", "k", "l", "m",
                "n", "o", "p", "q", "r", "s", "t", "u", "v", "w", "x", "y", "z">>

\* str.isspace for the characters of the model
IsSpace(c) == c \in {" ", "\n", "\t"}

\* the regex class \w
IsWord(c) ==
    \/ c \in Digits
    \/ c = "_"
    \/ \E i \in 1..26 : c = UpperChars[i] \/ c = LowerChars[i]

\* str.lower, one character
LowerChar(c) ==
    IF \E i \in 1..26 : c = UpperChars[i]
    THEN LowerChars[CHOOSE i \in 1..26 : c = UpperChars[i]]
    ELSE c

\* str.lower
Lower(s) == [i \in 1..Len(s) |-> LowerChar(s[i])]

\* str.strip()
Strip(s) ==
    LET keep == {i \in 1..Len(s) : ~IsSpace(s[i])}
    IN  IF keep = {} THEN <<>> ELSE SubSeq(s, Min(keep), Max(keep))

\* str.rstrip('.,!?:;')
RStripPunct(s) ==
    LET keep == {i \in 1..Len(s) : s[i] \notin {".", ",", "!", "?", ":", ";"}}
    IN  IF keep = {} THEN <<>> ELSE SubSeq(s, 1, Max(keep))

\* str.startswith
StartsWith(s, p) == Len(s) >= Len(p) /\ SubSeq(s, 1, Len(p)) = p

\* s[n:]
DropFirst(s, n) == SubSeq(s, n + 1, Len(s))

\* str.split()[0] when the string has a word: the first whitespace-delimited token
FirstWord(s) ==
    LET t == Strip(s)
        sp == {i \in 1..Len(t) : IsSpace(t[i])}
    IN  IF sp = {} THEN t ELSE SubSeq(t, 1, Min(sp) - 1)

\* s[i:i+len(p)] == p (1-based)
OccursAt(s, p, i) ==
    /\ i >= 1
    /\ i + Len(p) - 1 <= Len(s)
    /\ SubSeq(s, i, i + Len(p) - 1) = p

\* ------------------------------------------------------------------------
\* Regular-expression primitives used by judge.py
\* ------------------------------------------------------------------------

\* \b before position k (1-based, k in 1..Len(s)+1)
Boundary(s, k) ==
    LET before == k > 1 /\ IsWord(s[k - 1])
        after == k <= Len(s) /\ IsWord(s[k])
    IN  before # after

\* $ before position k: at the end, or before a final newline
DollarAt(s, k) == k = Len(s) + 1 \/ (k = Len(s) /\ s[k] = "\n")

\* s[i..j-1] is a non-empty run of digits
DigitRun(s, i, j) == i < j /\ j <= Len(s) + 1 /\ \A m \in i..(j - 1) : s[m] \in Digits

\* ends e (exclusive) of the matches of \d+(\.\d+)? starting at i
NumberEnds(s, i) ==
    {e \in (i + 1)..(Len(s) + 1) :
        \/ DigitRun(s, i, e)
        \/ \E j \in (i + 1)..(e - 2) :
              DigitRun(s, i, j) /\ s[j] = "." /\ DigitRun(s, j + 1, e)}

\* re.match(r'^\d+(\.\d+)?$', s)
IsNumberStr(s) == \E e \in NumberEnds(s, 1) : DollarAt(s, e)

\* ends of the matches of \b(\d+(?:\.\d+)?)\b starting at i
BoundedNumberEnds(s, i) ==
    IF Boundary(s, i) THEN {e \in NumberEnds(s, i) : Boundary(s, e)} ELSE {}

\* the end the backtracking engine reports for a start i: \d+ greedy, then
\* the optional fraction preferred over its absence
PreferredNumberEnd(s, i) ==
    LET ends == BoundedNumberEnds(s, i)
        intEnds == {j \in (i + 1)..(Len(s) + 1) : DigitRun(s, i, j)}
        \* for an integer part ending at j (tried longest first): fraction
        \* ends first (longest first), then j itself
        best(j) == LET fr == {e \in ends : e > j + 1 /\ s[j] = "." /\ DigitRun(s, j + 1, e)}
                   IN  IF fr # {} THEN Max(fr) ELSE IF j \in ends THEN j ELSE 0
        ok == {j \in intEnds : best(j) # 0}
    IN  best(Max(ok))

\* re.search(r'\b(\d+(?:\.\d+)?)\b', s): group(1) or None
SearchNumber(s) ==
    LET starts == {i \in 1..Len(s) : BoundedNumberEnds(s, i) # {}}
    IN  IF starts = {} THEN None
        ELSE LET i == Min(starts)
             IN  Some(SubSeq(s, i, PreferredNumberEnd(s, i) - 1))

\* \d{4}-\d{2}-\d{2} matches s[i..i+9]
DateAt(s, i) ==
    /\ i >= 1
    /\ i + 9 <= Len(s)
    /\ \A m \in {0, 1, 2, 3, 5, 6, 8, 9} : s[i + m] \in Digits
    /\ s[i + 4] = "-"
    /\ s[i + 7] = "-"

\* re.match(r'^\d{4}-\d{2}-\d{2}$', s)
IsDateStr(s) == DateAt(s, 1) /\ DollarAt(s, 11)

\* re.search(r'\b(\d{4}-\d{2}-\d{2})\b', s): group(1) or None
SearchDate(s) ==
    LET starts == {i \in 1..Len(s) : DateAt(s, i) /\ Boundary(s, i) /\ Boundary(s, i + 10)}
    IN  IF starts = {} THEN None
        ELSE Some(SubSeq(s, Min(starts), Min(starts) + 9))

\* ------------------------------------------------------------------------
\* json.loads (strict decoder) over the characters of the model.  Strings of
\* the model hold no backslash and no "\r", so escapes do not occur.
\* A parsed value is one of
\*   [num |-> <<negative, mantissa, exponent>>]   (value mantissa * 10^exponent,
\*                                                 mantissa without trailing zeros)
\*   [str |-> chars]   [lit |-> name]   [arr |-> sequence]   [obj |-> key :> value]
\* ------------------------------------------------------------------------

JsonWs == {" ", "\t", "\n"}

Fail == [ok |-> FALSE, v |-> <<>>, next |-> 0]

Ok(val, n) == [ok |-> TRUE, v |-> val, next |-> n]

\* WHITESPACE.match(s, i).end()
SkipWs(s, i) == Min({j \in i..(Len(s) + 1) : j > Len(s) \/ s[j] \notin JsonWs})

\* end of the (possibly empty) run of digits starting at i
RunEnd(s, i) == Min({j \in i..(Len(s) + 1) : j > Len(s) \/ s[j] \notin Digits})

DigitVal(c) == CHOOSE n \in 0..9 : <<"0", "1", "2", "3", "4", "5", "6", "7", "8", "9">>[n + 1] = c

RECURSIVE DigitsToNat(_)
\* int(s) for a string of digits
DigitsToNat(s) ==
    IF s = <<>> THEN 0
    ELSE 10 * DigitsToNat(SubSeq(s, 1, Len(s) - 1)) + DigitVal(s[Len(s)])

RECURSIVE NormDecimal(_, _)
\* mantissa and exponent without trailing zeros in the mantissa
NormDecimal(m, e) ==
    IF m = 0 THEN <<0, 0>>
    ELSE IF m % 10 = 0 THEN NormDecimal(m \div 10, e + 1)
    ELSE <<m, e>>

\* the decoded number: sign, and mantissa and exponent nd = <<m, e>>
NumberValue(neg, nd) == [num |-> <<neg /\ nd[1] # 0, nd[1], nd[2]>>]

\* where the digits of the exponent group ([eE][-+]?\d+)? start after fracEnd,
\* 0 when the group does not match
ExpDigitsAt(s, fracEnd) ==
    IF fracEnd > Len(s) \/ s[fracEnd] \notin {"e", "E"} THEN 0
    ELSE IF fracEnd + 1 <= Len(s) /\ s[fracEnd + 1] \in Digits THEN fracEnd + 1
    ELSE IF fracEnd + 2 <= Len(s) /\ s[fracEnd + 1] \in {"-", "+"} /\ s[fracEnd + 2] \in Digits
         THEN fracEnd + 2
    ELSE 0

\* the exponent written from position q on (q = 0: none)
ExponentAt(s, q) ==
    IF q = 0 THEN 0
    ELSE IF s[q - 1] = "-" THEN 0 - DigitsToNat(SubSeq(s, q, RunEnd(s, q) - 1))
    ELSE DigitsToNat(SubSeq(s, q, RunEnd(s, q) - 1))

\* the match with integer part s[p..intEnd-1], fraction s[intEnd+1..fracEnd-1]
\* (none when fracEnd = intEnd) and exponent digits from q on
NumberMatch(s, neg, p, intEnd, fracEnd, q) ==
    Ok(NumberValue(neg,
                   NormDecimal(DigitsToNat(SubSeq(s, p, intEnd - 1)
                                           \o (IF fracEnd > intEnd
                                               THEN SubSeq(s, intEnd + 1, fracEnd - 1)
                                               ELSE <<>>)),
                               ExponentAt(s, q)
                               - (IF fracEnd > intEnd THEN fracEnd - intEnd - 1 ELSE 0))),
       IF q = 0 THEN fracEnd ELSE RunEnd(s, q))

\* the fraction group (\.\d+)? after the integer part s[p..intEnd-1]
NumberFraction(s, neg, p, intEnd, fracEnd) ==
    NumberMatch(s, neg, p, intEnd, fracEnd, ExpDigitsAt(s, fracEnd))

\* the integer group (0|[1-9]\d*) from p on
NumberInteger(s, neg, p, intEnd) ==
    NumberFraction(s, neg, p, intEnd,
                   IF intEnd < Len(s) /\ s[intEnd] = "." /\ s[intEnd + 1] \in Digits
                   THEN RunEnd(s, intEnd + 1)
                   ELSE intEnd)

\* the digits after the optional sign start at p
NumberUnsigned(s, neg, p) ==
    IF p > Len(s) \/ s[p] \notin Digits THEN Fail
    ELSE NumberInteger(s, neg, p, IF s[p] = "0" THEN p + 1 ELSE RunEnd(s, p))

\* NUMBER_RE.match(s, i): (-?(?:0|[1-9]\d*))(\.\d+)?([eE][-+]?\d+)?
ParseNumber(s, i) ==
    NumberUnsigned(s, i <= Len(s) /\ s[i] = "-", IF i <= Len(s) /\ s[i] = "-" THEN i + 1 ELSE i)

\* py_scanstring(s, i + 1, strict=True) for s[i] = '"'
ParseString(s, i) ==
    LET closes == {j \in (i + 1)..Len(s) : s[j] = "\""}
    IN  IF closes = {} THEN Fail
        ELSE LET j == Min(closes)
             IN  IF \E m \in (i + 1)..(j - 1) : s[m] \in {"\n", "\t"} THEN Fail
                 ELSE Ok(SubSeq(s, i + 1, j - 1), j + 1)

JsonLiterals == << <<"n", "u", "l", "l">>, <<"t", "r", "u", "e">>, <<"f", "a", "l", "s", "e">>,
                   <<"N", "a", "N">>, <<"I", "n", "f", "i", "n", "i", "t", "y">>,
                   <<"-", "I", "n", "f", "i", "n", "i", "t", "y">> >>

LiteralNames == <<"null", "true", "false", "NaN", "Infinity", "-Infinity">>

\* dict(pairs): a later pair with the same key replaces the earlier one
PutKey(m, k, val) == [x \in (DOMAIN m) \cup {k} |-> IF x = k THEN val ELSE m[x]]

EmptyMap == [x \in {} |-> 0]

RECURSIVE ParseValue(_, _)
RECURSIVE ParseArrayItems(_, _, _)
RECURSIVE ParseObjectItems(_, _, _)

\* JSONArray after the value r: j is the position after the value and the
\* whitespace behind it
ArrayAfterValue(s, acc, r, j) ==
    IF ~r.ok THEN Fail
    ELSE IF j > Len(s) THEN Fail
    ELSE IF s[j] = "]" THEN Ok([arr |-> Append(acc, r.v)], j + 1)
    ELSE IF s[j] = "," THEN ParseArrayItems(s, SkipWs(s, j + 1), Append(acc, r.v))
    ELSE Fail

\* ParseValue followed by the whitespace behind the value
ArrayValue(s, acc, r) == ArrayAfterValue(s, acc, r, IF r.ok THEN SkipWs(s, r.next) ELSE 0)

\* JSONArray after the opening bracket: i is the start of the next value
ParseArrayItems(s, i, acc) == ArrayValue(s, acc, ParseValue(s, i))

\* JSONObject after the value r of key k: j is the position after the value and
\* the whitespace behind it
ObjectAfterValue(s, acc, k, r, j) ==
    IF ~r.ok THEN Fail
    ELSE IF j > Len(s) THEN Fail
    ELSE IF s[j] = "}" THEN Ok([obj |-> PutKey(acc, k, r.v)], j + 1)
    ELSE IF s[j] = "," THEN ParseObjectItems(s, SkipWs(s, j + 1), PutKey(acc, k, r.v))
    ELSE Fail

\* ParseValue followed by the whitespace behind the value
ObjectValue(s, acc, k, r) ==
    ObjectAfterValue(s, acc, k, r, IF r.ok THEN SkipWs(s, r.next) ELSE 0)

\* JSONObject after the key k: c is the position after the key and the
\* whitespace behind it, where the colon must stand
ObjectAfterKey(s, acc, k, c) ==
    IF ~k.ok THEN Fail
    ELSE IF c > Len(s) \/ s[c] # ":" THEN Fail
    ELSE ObjectValue(s, acc, k.v, ParseValue(s, SkipWs(s, c + 1)))

\* the key k followed by the whitespace behind it
ObjectKey(s, acc, k) == ObjectAfterKey(s, acc, k, IF k.ok THEN SkipWs(s, k.next) ELSE 0)

\* JSONObject after the opening brace: i is the position of the next key's quote
ParseObjectItems(s, i, acc) ==
    IF i > Len(s) \/ s[i] # "\"" THEN Fail
    ELSE ObjectKey(s, acc, ParseString(s, i))

\* a decoded string r as a value
StringValue(r) == IF r.ok THEN Ok([str |-> r.v], r.next) ELSE Fail

\* the literal number n at i
LiteralValue(n, i) == Ok([lit |-> LiteralNames[n]], i + Len(JsonLiterals[n]))

\* the number r when NUMBER_RE matched, else the constants NaN, Infinity, -Infinity
NumberOrConstant(s, i, r) ==
    IF r.ok THEN r
    ELSE IF \E n \in 4..6 : OccursAt(s, JsonLiterals[n], i)
         THEN LiteralValue(CHOOSE n \in 4..6 : OccursAt(s, JsonLiterals[n], i), i)
    ELSE Fail

\* the body of an object (closer "}") or array (closer "]") from j on
Container(s, j, closer) ==
    IF j <= Len(s) /\ s[j] = closer
    THEN Ok(IF closer = "}" THEN [obj |-> EmptyMap] ELSE [arr |-> <<>>], j + 1)
    ELSE IF closer = "}" THEN ParseObjectItems(s, j, EmptyMap)
    ELSE ParseArrayItems(s, j, <<>>)

\* scanner.py _scan_once(s, i)
ParseValue(s, i) ==
    IF i > Len(s) THEN Fail
    ELSE IF s[i] = "\"" THEN StringValue(ParseString(s, i))
    ELSE IF s[i] \in {"{", "["} THEN Container(s, SkipWs(s, i + 1), IF s[i] = "{" THEN "}" ELSE "]")
    ELSE IF \E n \in 1..3 : OccursAt(s, JsonLiterals[n], i)
         THEN LiteralValue(CHOOSE n \in 1..3 : OccursAt(s, JsonLiterals[n], i), i)
    ELSE NumberOrConstant(s, i, ParseNumber(s, i))

\* the decoded document r, when only whitespace follows it
WholeDocument(s, r) ==
    IF r.ok /\ SkipWs(s, r.next) = Len(s) + 1 THEN Ok(r.v, r.next) ELSE Fail

\* json.loads(s): [ok |-> FALSE] stands for json.JSONDecodeError
JsonLoads(s) == WholeDocument(s, ParseValue(s, SkipWs(s, 1)))

\* the number a value compares as (bool is an int in Python)
IsNumeric(a) == "num" \in DOMAIN a \/ ("lit" \in DOMAIN a /\ a.lit \in {"true", "false"})

NumOf(a) ==
    IF "num" \in DOMAIN a THEN a.num
    ELSE IF a.lit = "true" THEN <<FALSE, 1, 0>> ELSE <<FALSE, 0, 0>>

RECURSIVE PyEq(_, _)
\* a == b for two decoded JSON values
PyEq(a, b) ==
    IF IsNumeric(a) /\ IsNumeric(b) THEN NumOf(a) = NumOf(b)
    ELSE IF "str" \in DOMAIN a /\ "str" \in DOMAIN b THEN a.str = b.str
    ELSE IF "lit" \in DOMAIN a /\ "lit" \in DOMAIN b THEN a.lit = b.lit /\ a.lit # "NaN"
    ELSE IF "arr" \in DOMAIN a /\ "arr" \in DOMAIN b THEN
        /\ Len(a.arr) = Len(b.arr)
        /\ \A n \in 1..Len(a.arr) : PyEq(a.arr[n], b.arr[n])
    ELSE IF "obj" \in DOMAIN a /\ "obj" \in DOMAIN b THEN
        /\ DOMAIN a.obj = DOMAIN b.obj
        /\ \A k \in DOMAIN a.obj : PyEq(a.obj[k], b.obj[k])
    ELSE FALSE

\* ------------------------------------------------------------------------
\* jsonschema.validate for schemas with "type", "required" and "properties"
\* ------------------------------------------------------------------------

SimpleTypes == {"array", "boolean", "integer", "null", "number", "object", "string"}

RECURSIVE SchemaIsValid(_)
\* Validator.check_schema: a "type" outside the simple types raises SchemaError
SchemaIsValid(schema) ==
    /\ "type" \in DOMAIN schema => schema.type \in SimpleTypes
    /\ "properties" \in DOMAIN schema =>
          \A k \in DOMAIN schema.properties : SchemaIsValid(schema.properties[k])

\* the "type" keyword
HasType(inst, t) ==
    CASE t = "object" -> "obj" \in DOMAIN inst
      [] t = "array" -> "arr" \in DOMAIN inst
      [] t = "string" -> "str" \in DOMAIN inst
      [] t = "number" -> "num" \in DOMAIN inst
                         \/ ("lit" \in DOMAIN inst /\ inst.lit \in {"NaN", "Infinity", "-Infinity"})
      [] t = "integer" -> "num" \in DOMAIN inst /\ inst.num[3] >= 0
      [] t = "boolean" -> "lit" \in DOMAIN inst /\ inst.lit \in {"true", "false"}
      [] t = "null" -> "lit" \in DOMAIN inst /\ inst.lit = "null"

RECURSIVE Conforms(_, _)
\* the instance has no validation error against a valid schema
Conforms(inst, schema) ==
    /\ "type" \in DOMAIN schema => HasType(inst, schema.type)
    /\ ("required" \in DOMAIN schema /\ "obj" \in DOMAIN inst) =>
          schema.required \subseteq DOMAIN inst.obj
    /\ ("properties" \in DOMAIN schema /\ "obj" \in DOMAIN inst) =>
          \A k \in (DOMAIN schema.properties) \cap (DOMAIN inst.obj) :
              Conforms(inst.obj[k], schema.properties[k])

\* validate(instance=parsed_output, schema=schema): "ok", or the exception raised
validate(inst, schema) ==
    IF ~SchemaIsValid(schema) THEN "SchemaError"
    ELSE IF ~Conforms(inst, schema) THEN "ValidationError"
    ELSE "ok"

\* ------------------------------------------------------------------------
\* re.compile / re.search for the patterns of the model: an optional (?i),
\* an optional ^, literal characters, an optional $
\* ------------------------------------------------------------------------

InlineIgnoreCase == <<"(", "?", "i", ")">>

\* the pattern without its leading (?i)
PatternBody(src) == IF StartsWith(src, InlineIgnoreCase) THEN DropFirst(src, 4) ELSE src

\* the literal between the anchors
PatternLiteral(src) ==
    LET b == PatternBody(src)
        b1 == IF StartsWith(b, <<"^">>) THEN DropFirst(b, 1) ELSE b
    IN  IF b1 # <<>> /\ b1[Len(b1)] = "$" THEN SubSeq(b1, 1, Len(b1) - 1) ELSE b1

\* re.error: a parenthesis in the literal is an unterminated group
PatternCompiles(src) == \A i \in 1..Len(PatternLiteral(src)) : PatternLiteral(src)[i] \notin {"(", ")"}

\* re.search(pattern, output) is not None, for a pattern that compiles
ReSearch(src, output) ==
    LET icase == StartsWith(src, InlineIgnoreCase)
        b == PatternBody(src)
        bol == StartsWith(b, <<"^">>)
        eol == b # <<>> /\ b[Len(b)] = "$" /\ (bol => Len(b) > 1)
        lit == PatternLiteral(src)
        text == IF icase THEN Lower(output) ELSE output
        want == IF icase THEN Lower(lit) ELSE lit
    IN  \E i \in 1..(Len(output) + 1) :
            /\ bol => i = 1
            /\ Len(lit) > 0 => OccursAt(text, want, i)
            /\ eol => DollarAt(output, i + Len(lit))

\* ------------------------------------------------------------------------
\* Judge
\* ------------------------------------------------------------------------

\* dict.get(key, default)
Get(d, key, default) == IF key \in DOMAIN d THEN d[key] ELSE default

\* (bool, str) returned by the judge; the explanation is <<kind, text, text>>
Verdict(passed, kind, a, b) == [raised |-> FALSE, passed |-> passed, msg |-> <<kind, a, b>>]

\* an exception propagating out of the judge
Raised(exc) == [raised |-> TRUE, passed |-> FALSE, msg |-> <<exc, <<>>, <<>>>>]

\* str(ground_truth) for a ground truth that is None or a str
Str(ground_truth) ==
    IF ~ground_truth.some THEN <<"N", "o", "n", "e">> ELSE ground_truth.v.str

LeadIns == << <<"T", "h", "e", " ", "a", "n", "s", "w", "e", "r", " ", "i", "s">>,
              <<"I", "t", " ", "i", "s">>,
              <<"T", "h", "e", " ", "r", "e", "s", "u", "l", "t", " ", "i", "s">>,
              <<"T", "h", "i", "s", " ", "i", "s">> >>

RECURSIVE RemoveLeadIns(_, _)
\* the loop over the prefixes, from prefix number n on
RemoveLeadIns(cleaned, n) ==
    IF n > Len(LeadIns) THEN cleaned
    ELSE IF StartsWith(Lower(cleaned), Lower(LeadIns[n]))
         THEN RemoveLeadIns(Strip(DropFirst(cleaned, Len(LeadIns[n]))), n + 1)
         ELSE RemoveLeadIns(cleaned, n + 1)

\* match.group(1) when the search matched, else the output
GroupOr(match, out) == IF match.some THEN match.v ELSE out

\* words[0].rstrip('.,!?:;') when cleaned.split() has a word, else the output
FirstWordOr(cleaned, out) ==
    IF Strip(cleaned) # <<>> THEN RStripPunct(FirstWord(cleaned)) ELSE out

\* ExtractByTruth with the first word taken for a numeric ground truth
MutExtractByTruth(out, mode, ground_truth, ground_truth_str) ==
    IF mode = "json" THEN out
    ELSE IF mode = "regex" THEN out
    ELSE IF ~ground_truth.some THEN out
    ELSE IF IsNumberStr(ground_truth_str) THEN FirstWordOr(RemoveLeadIns(out, 1), out)
    ELSE IF IsDateStr(ground_truth_str) THEN GroupOr(SearchDate(out), out)
    ELSE IF (\A i \in 1..Len(ground_truth_str) : ground_truth_str[i] # " ")
            /\ Len(ground_truth_str) < 30
         THEN FirstWordOr(RemoveLeadIns(out, 1), out)
    ELSE out

\* Judge._extract_answer after output.strip(): out is the stripped output and
\* ground_truth_str is str(ground_truth).strip()
ExtractByTruth(out, mode, ground_truth, ground_truth_str) ==
    IF mode = "json" THEN out
    ELSE IF mode = "regex" THEN out
    ELSE IF ~ground_truth.some THEN out
    ELSE IF IsNumberStr(ground_truth_str) THEN GroupOr(SearchNumber(out), out)
    ELSE IF IsDateStr(ground_truth_str) THEN GroupOr(SearchDate(out), out)
    ELSE IF (\A i \in 1..Len(ground_truth_str) : ground_truth_str[i] # " ")
            /\ Len(ground_truth_str) < 30
         THEN FirstWordOr(RemoveLeadIns(out, 1), out)
    ELSE out

\* Judge._extract_answer
ExtractAnswer(output, ground_truth, judge_config) ==
    ExtractByTruth(Strip(output), Get(judge_config, "mode", "exact"), ground_truth,
                   Strip(Str(ground_truth)))

\* the comparison of _judge_exact, both sides stripped
CompareExact(output_cleaned, ground_truth_str) ==
    IF output_cleaned = ground_truth_str
    THEN Verdict(TRUE, "Exact match", output_cleaned, <<>>)
    ELSE Verdict(FALSE, "Mismatch", output_cleaned, ground_truth_str)

\* Judge._judge_exact
JudgeExact(output, ground_truth) == CompareExact(Strip(output), Strip(Str(ground_truth)))

\* the backquote character (a TLA+ string cannot hold it)
Backquote == "backquote"

Fence == <<Backquote, Backquote, Backquote>>

\* re.search(code_block_pattern, text, re.DOTALL): group(1).strip() or None,
\* for the pattern  fence (?:json)? \s* \n? (.*?) \n? fence.  The group runs
\* from the end of the opening fence (and of "json"
\* when it follows) to the first closing fence; the whitespace the pattern
\* takes around it is whitespace strip() removes.
CodeBlock(text) ==
    LET body(i) == IF OccursAt(text, <<"j", "s", "o", "n">>, i + 3) THEN i + 7 ELSE i + 3
        closes(i) == {k \in body(i)..Len(text) : OccursAt(text, Fence, k)}
        opens == {i \in 1..Len(text) : OccursAt(text, Fence, i) /\ closes(i) # {}}
    IN  IF opens = {} THEN None
        ELSE LET i == Min(opens)
             IN  Some(Strip(SubSeq(text, body(i), Min(closes(i)) - 1)))

\* re.search(r'(\{.*\}|\[.*\])', text, re.DOTALL): group(1) or None
BracketSpan(text) ==
    LET closer(c) == IF c = "{" THEN "}" ELSE "]"
        ends(i) == {j \in (i + 1)..Len(text) : text[j] = closer(text[i])}
        opens == {i \in 1..Len(text) : text[i] \in {"{", "["} /\ ends(i) # {}}
    IN  IF opens = {} THEN None
        ELSE LET i == Min(opens) IN Some(SubSeq(text, i, Max(ends(i))))

\* json.loads(match.group(1)) when the search matched
LoadsGroup(match) == IF match.some THEN JsonLoads(match.v) ELSE Fail

\* the first of the three attempts that decodes, else the ValueError
FirstDecoded(direct, block, span) ==
    IF direct.ok THEN direct
    ELSE IF block.ok THEN block
    ELSE IF span.ok THEN span
    ELSE Fail

\* _extract_and_parse_json after text.strip()
ParseStripped(text) ==
    FirstDecoded(JsonLoads(text), LoadsGroup(CodeBlock(text)), LoadsGroup(BracketSpan(text)))

\* Judge._extract_and_parse_json: [ok |-> FALSE] stands for the ValueError
ExtractAndParseJson(text0) == ParseStripped(Strip(text0))

\* {k: v for k, v in d.items() if k not in ignore_fields}
WithoutKeys(d, ignore_fields) == [k \in (DOMAIN d) \ ignore_fields |-> d[k]]

\* the comparison of two dicts without the ignored fields
CompareFiltered(output_filtered, truth_filtered) ==
    IF PyEq(output_filtered, truth_filtered)
    THEN Verdict(TRUE, "JSON match (ignoring)", output_filtered, <<>>)
    ELSE Verdict(FALSE, "JSON mismatch", output_filtered, truth_filtered)

\* _judge_json, step 3: compare with the ground truth
CompareJson(parsed_output, truth, ignore_fields) ==
    IF "obj" \in DOMAIN parsed_output /\ "obj" \in DOMAIN truth
    THEN CompareFiltered([obj |-> WithoutKeys(parsed_output.obj, ignore_fields)],
                         [obj |-> WithoutKeys(truth.obj, ignore_fields)])
    ELSE IF PyEq(parsed_output, truth)
         THEN Verdict(TRUE, "JSON exact match", parsed_output, <<>>)
         ELSE Verdict(FALSE, "JSON mismatch", parsed_output, truth)

\* _judge_json, step 2: validate(...) when a schema is given; "ok", or the
\* exception raised
CheckSchema(parsed_output, schema) ==
    IF schema.some /\ DOMAIN schema.v # {} THEN validate(parsed_output, schema.v) ELSE "ok"

\* _judge_json after step 2, whose outcome is checked
JudgeValidated(parsed_output, checked, ground_truth, judge_config) ==
    IF checked = "ValidationError" THEN Verdict(FALSE, "Schema validation failed", <<>>, <<>>)
    ELSE IF checked # "ok" THEN Raised(checked)
    ELSE IF ~ground_truth.some
         THEN Verdict(TRUE, "JSON valid (no ground truth to compare)", parsed_output, <<>>)
    ELSE CompareJson(parsed_output, ground_truth.v.json, Get(judge_config, "ignore_fields", {}))

\* _judge_json after step 1, whose outcome is parsed
JudgeParsed(output, parsed, ground_truth, judge_config, schema) ==
    IF ~parsed.ok THEN Verdict(FALSE, "JSON parse error", Strip(output), <<>>)
    ELSE JudgeValidated(parsed.v, CheckSchema(parsed.v, schema), ground_truth, judge_config)

\* Judge._judge_json; a ground truth in json mode is a decoded value [json |-> v]
JudgeJson(output, ground_truth, judge_config, schema) ==
    JudgeParsed(output, ExtractAndParseJson(output), ground_truth, judge_config, schema)

\* _judge_regex for the pattern of the configuration (<<>>: none)
SearchPattern(pattern, output) ==
    IF pattern = <<>> THEN Verdict(FALSE, "No regex pattern provided", <<>>, <<>>)
    ELSE IF ~PatternCompiles(pattern) THEN Verdict(FALSE, "Regex error", <<>>, <<>>)
    ELSE IF ReSearch(pattern, output)
         THEN Verdict(TRUE, "Regex match", pattern, <<>>)
         ELSE Verdict(FALSE, "Regex mismatch", pattern, output)

\* Judge._judge_regex
JudgeRegex(output, judge_config) == SearchPattern(Get(judge_config, "pattern", <<>>), output)

\* the dispatch of Judge.evaluate on the mode
JudgeByMode(mode, output, ground_truth, judge_config, schema) ==
    IF mode = "exact" THEN JudgeExact(output, ground_truth)
    ELSE IF mode = "json" THEN JudgeJson(output, ground_truth, judge_config, schema)
    ELSE IF mode = "regex" THEN JudgeRegex(output, judge_config)
    ELSE Verdict(FALSE, "Unknown judge mode", <<>>, <<>>)

\* Judge.evaluate
evaluate(output, ground_truth, judge_config, schema, lenient) ==
    JudgeByMode(Get(judge_config, "mode", "exact"),
                IF lenient THEN ExtractAnswer(output, ground_truth, judge_config) ELSE output,
                ground_truth, judge_config, schema)

\* ------------------------------------------------------------------------
\* Rates: a float rate is the exact fraction <<numerator, denominator>> in
\* lowest terms with a positive denominator
\* ------------------------------------------------------------------------

Abs(n) == IF n < 0 THEN 0 - n ELSE n

RECURSIVE GCD(_, _)
GCD(a, b) == IF b = 0 THEN a ELSE GCD(b, a % b)

\* n / d for d # 0
Frac(n, d) ==
    LET g == GCD(Abs(n), Abs(d))
        sgn == IF d < 0 THEN 0 - 1 ELSE 1
    IN  <<(sgn * n) \div g, (sgn * d) \div g>>

Zero == <<0, 1>>

FracSub(a, b) == Frac(a[1] * b[2] - b[1] * a[2], a[2] * b[2])

FracDiv(a, b) == Frac(a[1] * b[2], a[2] * b[1])

FracMul(a, b) == Frac(a[1] * b[1], a[2] * b[2])

FracLeq(a, b) == a[1] * b[2] <= b[1] * a[2]

FracAdd(a, b) == Frac(a[1] * b[2] + b[1] * a[2], a[2] * b[2])

FracLt(a, b) == a[1] * b[2] < b[1] * a[2]

RECURSIVE SumFracs(_)
SumFracs(xs) == IF xs = <<>> THEN Zero ELSE FracAdd(Head(xs), SumFracs(Tail(xs)))

\* statistics.mean of a non-empty list
MeanFracs(xs) == FracDiv(SumFracs(xs), <<Len(xs), 1>>)

\* statistics.mean(xs) if xs else 0.0
MeanOrZero(xs) == IF xs # <<>> THEN MeanFracs(xs) ELSE Zero

\* the numbers of a list as rationals
AsFracs(xs) == [k \in 1..Len(xs) |-> <<xs[k], 1>>]

\* sorted(xs)[k - 1]
KthSmallest(xs, k) ==
    CHOOSE v \in {xs[n] : n \in 1..Len(xs)} :
        /\ Cardinality({n \in 1..Len(xs) : xs[n] < v}) < k
        /\ k <= Cardinality({n \in 1..Len(xs) : xs[n] <= v})

\* statistics.median of a non-empty list
Median(xs) ==
    IF Len(xs) % 2 = 1 THEN <<KthSmallest(xs, (Len(xs) + 1) \div 2), 1>>
    ELSE Frac(KthSmallest(xs, Len(xs) \div 2) + KthSmallest(xs, Len(xs) \div 2 + 1), 2)

\* ------------------------------------------------------------------------
\* metrics.py
\* ------------------------------------------------------------------------

\* SuccessMetrics()
NewSuccessMetrics ==
    [total_tasks |-> 0, successful_tasks |-> 0, failed_tasks |-> 0,
     partial_success_tasks |-> 0, lenient_successful_tasks |-> 0,
     success_by_category |-> EmptyMap, success_by_complexity |-> EmptyMap]

\* EfficiencyMetrics()
NewEfficiencyMetrics ==
    [latencies |-> <<>>, input_tokens |-> <<>>, output_tokens |-> <<>>,
     step_counts |-> <<>>, tool_call_counts |-> <<>>]

\* RobustnessMetrics()
NewRobustnessMetrics ==
    [original_success_rate |-> Zero, perturbed_success_rate |-> Zero,
     degradation_percentage |-> Zero, task_robustness_scores |-> EmptyMap]

\* ControllabilityMetrics()
NewControllabilityMetrics ==
    [total_json_tasks |-> 0, schema_compliant_tasks |-> 0,
     total_tool_tasks |-> 0, tool_policy_compliant_tasks |-> 0,
     format_compliance_rate |-> Zero, avg_interpretability_score |-> Zero]

\* PatternMetrics(pattern_name=pattern_name)
NewPatternMetrics(pattern_name) ==
    [pattern_name |-> pattern_name, success |-> NewSuccessMetrics,
     efficiency |-> NewEfficiencyMetrics, robustness |-> NewRobustnessMetrics,
     controllability |-> NewControllabilityMetrics]

\* SuccessMetrics.success_rate
success_rate(m) == IF m.total_tasks = 0 THEN Zero ELSE Frac(m.successful_tasks, m.total_tasks)

\* SuccessMetrics.lenient_success_rate
lenient_success_rate(m) ==
    IF m.total_tasks = 0 THEN Zero ELSE Frac(m.lenient_successful_tasks, m.total_tasks)

\* SuccessMetrics.controllability_gap
controllability_gap(m) == FracSub(lenient_success_rate(m), success_rate(m))

\* mutant of calculate_degradation: the relative drop is taken against the
\* perturbed rate
MutCalculateDegradation(m) ==
    IF m.original_success_rate = Zero \/ m.perturbed_success_rate = Zero
    THEN [m EXCEPT !.degradation_percentage = Zero]
    ELSE LET degradation == FracDiv(FracSub(m.original_success_rate, m.perturbed_success_rate),
                                    m.perturbed_success_rate)
         IN  [m EXCEPT !.degradation_percentage = FracMul(degradation, <<100, 1>>)]

\* RobustnessMetrics.calculate_degradation: the metrics after the call
calculate_degradation(m) ==
    IF m.original_success_rate = Zero
    THEN [m EXCEPT !.degradation_percentage = Zero]
    ELSE LET degradation == FracDiv(FracSub(m.original_success_rate, m.perturbed_success_rate),
                                    m.original_success_rate)
         IN  [m EXCEPT !.degradation_percentage = FracMul(degradation, <<100, 1>>)]

\* mutant of failure_rate: the strict successes are counted
MutFailureRate(m) == IF m.total_tasks = 0 THEN Zero ELSE Frac(m.successful_tasks, m.total_tasks)

\* SuccessMetrics.failure_rate
failure_rate(m) == IF m.total_tasks = 0 THEN Zero ELSE Frac(m.failed_tasks, m.total_tasks)

\* EfficiencyMetrics.avg_latency
avg_latency(m) == MeanOrZero(AsFracs(m.latencies))

\* EfficiencyMetrics.median_latency
median_latency(m) == IF m.latencies # <<>> THEN Median(m.latencies) ELSE Zero

\* [i + o for i, o in zip(input_tokens, output_tokens)]
ZipTotals(input_tokens, output_tokens) ==
    [k \in 1..Min({Len(input_tokens), Len(output_tokens)}) |->
        <<input_tokens[k] + output_tokens[k], 1>>]

\* EfficiencyMetrics.avg_total_tokens
avg_total_tokens(m) ==
    IF m.input_tokens = <<>> \/ m.output_tokens = <<>> THEN Zero
    ELSE MeanFracs(ZipTotals(m.input_tokens, m.output_tokens))

\* ControllabilityMetrics.schema_compliance_rate
schema_compliance_rate(m) ==
    IF m.total_json_tasks = 0 THEN Zero ELSE Frac(m.schema_compliant_tasks, m.total_json_tasks)

\* ControllabilityMetrics.tool_policy_compliance_rate
tool_policy_compliance_rate(m) ==
    IF m.total_tool_tasks = 0 THEN Zero
    ELSE Frac(m.tool_policy_compliant_tasks, m.total_tool_tasks)

\* the scores list overall_controllability builds
ControllabilityScores(m) ==
    (IF m.total_json_tasks > 0 THEN <<schema_compliance_rate(m)>> ELSE <<>>)
    \o (IF m.total_tool_tasks > 0 THEN <<tool_policy_compliance_rate(m)>> ELSE <<>>)
    \o <<m.format_compliance_rate>>
    \o (IF FracLt(Zero, m.avg_interpretability_score)
        THEN <<FracDiv(m.avg_interpretability_score, <<10, 1>>)>> ELSE <<>>)

\* ControllabilityMetrics.overall_controllability
overall_controllability(m) == MeanOrZero(ControllabilityScores(m))

\* ------------------------------------------------------------------------
\* metrics.py: MetricsAggregator.  A Dict[str, PatternMetrics] is the sequence
\* of its items in insertion order, each [name |-> key, metrics |-> value],
\* with distinct names.  Of the dimension records the names are kept; their
\* rounded figures are left out.
\* ------------------------------------------------------------------------

\* mutant of ArgMax: of the keys with the largest value the last one is taken
MutArgMax(scores) ==
    Max({k \in 1..Len(scores) : \A n \in 1..Len(scores) : FracLeq(scores[n], scores[k])})

\* max(d, key=d.get) for the values of d in order: the position of the first
\* key no later key beats
ArgMax(scores) ==
    Min({k \in 1..Len(scores) : \A n \in 1..Len(scores) : FracLeq(scores[n], scores[k])})

\* min(d, key=d.get) for the values of d in order
ArgMin(scores) ==
    Min({k \in 1..Len(scores) : \A n \in 1..Len(scores) : FracLeq(scores[k], scores[n])})

\* list(pattern_metrics.keys())
Keys(pattern_metrics) == [k \in 1..Len(pattern_metrics) |-> pattern_metrics[k].name]

\* {name: metrics.success.success_rate() ...}, the values in order
SuccessRates(pattern_metrics) ==
    [k \in 1..Len(pattern_metrics) |-> success_rate(pattern_metrics[k].metrics.success)]

\* {name: metrics.efficiency.avg_latency() ...}, the values in order
Latencies(pattern_metrics) ==
    [k \in 1..Len(pattern_metrics) |-> avg_latency(pattern_metrics[k].metrics.efficiency)]

\* {name: metrics.robustness.degradation_percentage ...}, the values in order
Degradations(pattern_metrics) ==
    [k \in 1..Len(pattern_metrics) |->
        pattern_metrics[k].metrics.robustness.degradation_percentage]

\* {name: metrics.controllability.overall_controllability() ...}, the values in order
ControllabilityValues(pattern_metrics) ==
    [k \in 1..Len(pattern_metrics) |->
        overall_controllability(pattern_metrics[k].metrics.controllability)]

\* MetricsAggregator._compare_success
compare_success(pattern_metrics) ==
    [metric |-> "success_rate",
     best_pattern |-> pattern_metrics[ArgMax(SuccessRates(pattern_metrics))].name,
     worst_pattern |-> pattern_metrics[ArgMin(SuccessRates(pattern_metrics))].name]

\* MetricsAggregator._compare_efficiency
compare_efficiency(pattern_metrics) ==
    [metric |-> "avg_latency_sec",
     fastest_pattern |-> pattern_metrics[ArgMin(Latencies(pattern_metrics))].name,
     slowest_pattern |-> pattern_metrics[ArgMax(Latencies(pattern_metrics))].name]

\* MetricsAggregator._compare_robustness
compare_robustness(pattern_metrics) ==
    [metric |-> "degradation_percentage",
     most_robust_pattern |-> pattern_metrics[ArgMin(Degradations(pattern_metrics))].name,
     least_robust_pattern |-> pattern_metrics[ArgMax(Degradations(pattern_metrics))].name]

\* MetricsAggregator._compare_controllability
compare_controllability(pattern_metrics) ==
    [metric |-> "overall_controllability",
     most_controllable_pattern |->
         pattern_metrics[ArgMax(ControllabilityValues(pattern_metrics))].name,
     least_controllable_pattern |->
         pattern_metrics[ArgMin(ControllabilityValues(pattern_metrics))].name]

RECURSIVE Pow10(_)
\* 10 ** n
Pow10(n) == IF n = 0 THEN 1 ELSE 10 * Pow10(n - 1)

\* the multiple of 1 / scale nearest to n / d, the even one of two equally near
NearestMultiple(n, d, scale) ==
    LET q == (n * scale) \div d
        twice == 2 * ((n * scale) % d)
    IN  IF twice < d \/ (twice = d /\ q % 2 = 0) THEN q ELSE q + 1

\* round(x, ndigits)
Round(x, ndigits) == Frac(NearestMultiple(x[1], x[2], Pow10(ndigits)), Pow10(ndigits))

\* PatternMetrics.summary
summary(m) ==
    [pattern |-> m.pattern_name,
     success_rate_strict |-> Round(success_rate(m.success), 3),
     success_rate_lenient |-> Round(lenient_success_rate(m.success), 3),
     controllability_gap |-> Round(controllability_gap(m.success), 3),
     avg_latency_sec |-> Round(avg_latency(m.efficiency), 2),
     avg_tokens |-> Round(avg_total_tokens(m.efficiency), 1),
     degradation_pct |-> Round(m.robustness.degradation_percentage, 2),
     controllability |-> Round(overall_controllability(m.controllability), 3)]

\* MetricsAggregator._build_summary_table
build_summary_table(pattern_metrics) ==
    [k \in 1..Len(pattern_metrics) |-> summary(pattern_metrics[k].metrics)]

\* MetricsAggregator.compare_patterns
compare_patterns(pattern_metrics) ==
    IF pattern_metrics = <<>> THEN EmptyMap
    ELSE [patterns |-> Keys(pattern_metrics),
          success_dimension |-> compare_success(pattern_metrics),
          efficiency_dimension |-> compare_efficiency(pattern_metrics),
          robustness_dimension |-> compare_robustness(pattern_metrics),
          controllability_dimension |-> compare_controllability(pattern_metrics),
          summary_table |-> build_summary_table(pattern_metrics)]

\* ------------------------------------------------------------------------
\* report_generator.py: the summary table of the reports.  A report call
\* either raises KeyError for the first key it reads and does not find, or
\* yields the fields it read, row by row.
\* ------------------------------------------------------------------------

KeyError(key) == [raised |-> TRUE, key |-> key]

\* the keys read from a row of the summary table, in the order of the f-string
RowKeys(renderer) ==
    IF renderer = "console"
    THEN <<"pattern", "success_rate", "avg_latency_sec", "avg_tokens", "degradation_pct">>
    ELSE <<"pattern", "success_rate", "avg_latency_sec", "avg_tokens", "degradation_pct",
           "controllability">>

\* the positions of the keys a row does not have
MissingKeys(row, keys) == {n \in 1..Len(keys) : keys[n] \notin DOMAIN row}

\* the rows a report cannot render
BadRows(table, keys) == {k \in 1..Len(table) : MissingKeys(table[k], keys) # {}}

\* for row in comparison["summary_table"]: f"{row['pattern']} ... "
RenderTable(comparison, keys) ==
    IF "summary_table" \notin DOMAIN comparison THEN KeyError("summary_table")
    ELSE IF BadRows(comparison.summary_table, keys) # {}
    THEN KeyError(keys[Min(MissingKeys(
             comparison.summary_table[Min(BadRows(comparison.summary_table, keys))], keys))])
    ELSE [raised |-> FALSE,
          lines |-> [k \in 1..Len(comparison.summary_table) |->
                        [n \in 1..Len(keys) |-> comparison.summary_table[k][keys[n]]]]]

\* ------------------------------------------------------------------------
\* test_suite.py
\* ------------------------------------------------------------------------

\* TestTask.get_perturbations
get_perturbations(task) ==
    IF task.robustness.some /\ DOMAIN task.robustness.v # {}
       /\ "perturbations" \in DOMAIN task.robustness.v
    THEN task.robustness.v.perturbations
    ELSE <<>>

\* ------------------------------------------------------------------------
\* evaluator.py: TaskResult and the per-task step
\* ------------------------------------------------------------------------

NoMessage == <<"", <<>>, <<>>>>

\* TaskResult(task_id=..., task_category=..., task_complexity=..., pattern_name=...)
NewTaskResult(pattern_name, task) ==
    [task_id |-> task.id, task_category |-> task.category,
     task_complexity |-> task.complexity, pattern_name |-> pattern_name,
     success |-> FALSE, output |-> <<>>, error |-> None, latency |-> 0,
     input_tokens |-> 0, output_tokens |-> 0, total_tokens |-> 0,
     step_count |-> 0, tool_call_count |-> 0,
     judge_success |-> FALSE, judge_message |-> NoMessage,
     lenient_judge_success |-> FALSE, lenient_judge_message |-> NoMessage,
     schema_compliant |-> TRUE, tool_policy_compliant |-> TRUE]

\* mutant of ExecutionError: the except branch forgets result.success = False
MutExecutionError(result, message) ==
    [result EXCEPT !.error = Some(message), !.judge_success = FALSE,
                   !.judge_message = <<"Execution error", <<>>, <<>>>>]

\* the except branch of _run_single_task applied to the result built so far
ExecutionError(result, message) ==
    [result EXCEPT !.success = FALSE, !.error = Some(message), !.judge_success = FALSE,
                   !.judge_message = <<"Execution error", <<>>, <<>>>>]

\* response.get("values", {}).get("messages", response.get("messages", []))
ResponseMessages(response) ==
    Get(Get(response, "values", EmptyMap), "messages", Get(response, "messages", <<>>))

\* the output parsed out of a dict response
ResponseOutput(response) ==
    LET messages == ResponseMessages(response)
    IN  IF messages # <<>> THEN messages[Len(messages)].content
        ELSE Get(Get(response, "values", EmptyMap), "output", <<>>)

\* the step count read from a dict response
ResponseSteps(response) ==
    IF "values" \in DOMAIN response THEN Len(Get(response.values, "messages", <<>>)) ELSE 0

\* mutant of RecordVerdicts: schema_compliant is set to the strict verdict for
\* every task
MutRecordVerdicts(task, executed, strict, lenient) ==
    IF strict.raised THEN ExecutionError(executed, strict.msg[1])
    ELSE IF lenient.raised
         THEN ExecutionError([executed EXCEPT !.judge_success = strict.passed,
                                              !.judge_message = strict.msg],
                             lenient.msg[1])
    ELSE [executed EXCEPT !.judge_success = strict.passed,
                          !.judge_message = strict.msg,
                          !.lenient_judge_success = lenient.passed,
                          !.lenient_judge_message = lenient.msg,
                          !.schema_compliant = strict.passed]

\* the end of the try block: the two verdicts are recorded, unless one of the
\* two judge calls raised
RecordVerdicts(task, executed, strict, lenient) ==
    IF strict.raised THEN ExecutionError(executed, strict.msg[1])
    ELSE IF lenient.raised
         THEN ExecutionError([executed EXCEPT !.judge_success = strict.passed,
                                              !.judge_message = strict.msg],
                             lenient.msg[1])
    ELSE [executed EXCEPT !.judge_success = strict.passed,
                          !.judge_message = strict.msg,
                          !.lenient_judge_success = lenient.passed,
                          !.lenient_judge_message = lenient.msg,
                          !.schema_compliant =
                              IF task.schema.some /\ DOMAIN task.schema.v # {}
                              THEN strict.passed ELSE @]

\* the try block after graph.invoke returned: output is the parsed output
ParseAndJudge(task, result, prompt, outcome, output) ==
    RecordVerdicts(task,
                   [result EXCEPT !.latency = outcome.duration,
                                  !.output = output,
                                  !.success = TRUE,
                                  !.step_count = ResponseSteps(outcome.response),
                                  !.input_tokens = Len(prompt) \div 4,
                                  !.output_tokens = Len(output) \div 4,
                                  !.total_tokens = (Len(prompt) \div 4) + (Len(output) \div 4)],
                   evaluate(output, task.ground_truth, task.judge, task.schema, FALSE),
                   evaluate(output, task.ground_truth, task.judge, task.schema, TRUE))

\* PatternEvaluator._run_single_task, given what graph.invoke did: outcome.raises
\* with outcome.error, or outcome.response after outcome.duration seconds
RunSingleTask(pattern_name, task, prompt, outcome) ==
    IF outcome.raises THEN ExecutionError(NewTaskResult(pattern_name, task), outcome.error)
    ELSE ParseAndJudge(task, NewTaskResult(pattern_name, task), prompt, outcome,
                       ResponseOutput(outcome.response))

\* ------------------------------------------------------------------------
\* evaluator.py: the folds
\* ------------------------------------------------------------------------

\* sum(1 for r in results if P(r)), for flags[k] = P(results[k])
Count(flags) == Cardinality({k \in DOMAIN flags : flags[k]})

\* the strict success rate of the results selected by keys[k] = value
GroupRate(results, keys, value) ==
    Frac(Count([k \in DOMAIN results |-> keys[k] = value /\ results[k].judge_success]),
         Count([k \in DOMAIN results |-> keys[k] = value]))

\* PatternEvaluator._collect_success_metrics: the metrics after the call
CollectSuccessMetrics(success_metrics, results, tasks) ==
    LET categories == {c \in {tasks[k].category : k \in 1..Len(tasks)} :
                          \E k \in 1..Len(results) : results[k].task_category = c}
        complexities == {c \in {tasks[k].complexity : k \in 1..Len(tasks)} :
                            \E k \in 1..Len(results) : results[k].task_complexity = c}
    IN  [success_metrics EXCEPT
            !.total_tasks = Len(results),
            !.successful_tasks = Count([k \in DOMAIN results |-> results[k].judge_success]),
            !.lenient_successful_tasks =
                Count([k \in DOMAIN results |-> results[k].lenient_judge_success]),
            !.failed_tasks = Count([k \in DOMAIN results |-> ~results[k].judge_success]),
            !.success_by_category =
                [c \in (DOMAIN @) \cup categories |->
                    IF c \in categories
                    THEN GroupRate(results, [k \in DOMAIN results |-> results[k].task_category], c)
                    ELSE @[c]],
            !.success_by_complexity =
                [c \in (DOMAIN @) \cup complexities |->
                    IF c \in complexities
                    THEN GroupRate(results, [k \in DOMAIN results |-> results[k].task_complexity], c)
                    ELSE @[c]]]

RECURSIVE MutCollectEfficiencyMetrics(_, _)
\* mutant of CollectEfficiencyMetrics: a failed execution adds its latency
MutCollectEfficiencyMetrics(efficiency_metrics, results) ==
    IF results = <<>> THEN efficiency_metrics
    ELSE LET result == Head(results)
             appended == [efficiency_metrics EXCEPT
                             !.latencies = Append(@, result.latency),
                             !.input_tokens = Append(@, result.input_tokens),
                             !.output_tokens = Append(@, result.output_tokens),
                             !.step_counts = Append(@, result.step_count),
                             !.tool_call_counts = Append(@, result.tool_call_count)]
             failed == [efficiency_metrics EXCEPT !.latencies = Append(@, result.latency)]
         IN  MutCollectEfficiencyMetrics(IF result.success THEN appended ELSE failed,
                                         Tail(results))

RECURSIVE CollectEfficiencyMetrics(_, _)
\* PatternEvaluator._collect_efficiency_metrics: the metrics after the call
CollectEfficiencyMetrics(efficiency_metrics, results) ==
    IF results = <<>> THEN efficiency_metrics
    ELSE LET result == Head(results)
             appended == [efficiency_metrics EXCEPT
                             !.latencies = Append(@, result.latency),
                             !.input_tokens = Append(@, result.input_tokens),
                             !.output_tokens = Append(@, result.output_tokens),
                             !.step_counts = Append(@, result.step_count),
                             !.tool_call_counts = Append(@, result.tool_call_count)]
         IN  CollectEfficiencyMetrics(IF result.success THEN appended ELSE efficiency_metrics,
                                      Tail(results))

\* mutant of CollectControllabilityMetrics: a tool task is compliant only when
\* its execution completed
MutCollectControllabilityMetrics(controllability_metrics, results, tasks) ==
    LET \* next((t for t in tasks if t.id == result.task_id), None) with a truthy schema
        Found(r) == {k \in 1..Len(tasks) : tasks[k].id = r.task_id}
        Compliant(r) ==
            /\ Found(r) # {}
            /\ LET task == tasks[Min(Found(r))]
               IN  task.schema.some /\ DOMAIN task.schema.v # {}
            /\ r.schema_compliant
    IN  [controllability_metrics EXCEPT
            !.total_json_tasks = Count([k \in DOMAIN tasks |-> tasks[k].schema.some]),
            !.schema_compliant_tasks =
                @ + Count([k \in DOMAIN results |-> Compliant(results[k])]),
            !.total_tool_tasks = Count([k \in DOMAIN tasks |-> tasks[k].plan.some]),
            !.tool_policy_compliant_tasks =
                Count([k \in DOMAIN tasks |-> tasks[k].plan.some /\ results[k].success]),
            !.format_compliance_rate =
                IF Count([k \in DOMAIN results |-> results[k].success]) > 0
                THEN Frac(Count([k \in DOMAIN results |->
                                    results[k].success /\ results[k].judge_success]),
                          Count([k \in DOMAIN results |-> results[k].success]))
                ELSE @]

\* PatternEvaluator._collect_controllability_metrics: the metrics after the call
CollectControllabilityMetrics(controllability_metrics, results, tasks) ==
    LET \* next((t for t in tasks if t.id == result.task_id), None) with a truthy schema
        Found(r) == {k \in 1..Len(tasks) : tasks[k].id = r.task_id}
        Compliant(r) ==
            /\ Found(r) # {}
            /\ LET task == tasks[Min(Found(r))]
               IN  task.schema.some /\ DOMAIN task.schema.v # {}
            /\ r.schema_compliant
    IN  [controllability_metrics EXCEPT
            !.total_json_tasks = Count([k \in DOMAIN tasks |-> tasks[k].schema.some]),
            !.schema_compliant_tasks =
                @ + Count([k \in DOMAIN results |-> Compliant(results[k])]),
            !.total_tool_tasks = Count([k \in DOMAIN tasks |-> tasks[k].plan.some]),
            !.tool_policy_compliant_tasks = Count([k \in DOMAIN tasks |-> tasks[k].plan.some]),
            !.format_compliance_rate =
                IF Count([k \in DOMAIN results |-> results[k].success]) > 0
                THEN Frac(Count([k \in DOMAIN results |->
                                    results[k].success /\ results[k].judge_success]),
                          Count([k \in DOMAIN results |-> results[k].success]))
                ELSE @]

\* the last result with each task id: task_pairs[id]["original"] / ["perturbed"]
LastWithId(results, id) == results[Max({k \in 1..Len(results) : results[k].task_id = id})]

Ids(results) == {results[k].task_id : k \in 1..Len(results)}

\* mutant of RobustnessScore: 0.5 when either pass succeeded
MutRobustnessScore(orig, pert) ==
    IF orig.judge_success /\ pert.judge_success THEN <<1, 1>>
    ELSE IF orig.judge_success \/ pert.judge_success THEN <<1, 2>>
    ELSE Zero

\* the per-task robustness score
RobustnessScore(orig, pert) ==
    IF orig.judge_success /\ pert.judge_success THEN <<1, 1>>
    ELSE IF orig.judge_success /\ ~pert.judge_success THEN <<1, 2>>
    ELSE Zero

\* mutant of CollectRobustnessMetrics: the perturbed rate is taken over all
\* the tasks of the original pass
MutCollectRobustnessMetrics(robustness_metrics, original_results, perturbed_results) ==
    LET rated == [robustness_metrics EXCEPT
                     !.perturbed_success_rate =
                         Frac(Count([k \in DOMAIN perturbed_results |->
                                        perturbed_results[k].judge_success]),
                              Len(original_results))]
        paired == Ids(original_results) \cap Ids(perturbed_results)
    IN  IF perturbed_results = <<>> THEN robustness_metrics
        ELSE [calculate_degradation(rated) EXCEPT
                 !.task_robustness_scores =
                     [id \in (DOMAIN @) \cup paired |->
                         IF id \in paired
                         THEN RobustnessScore(LastWithId(original_results, id),
                                              LastWithId(perturbed_results, id))
                         ELSE @[id]]]

\* PatternEvaluator._collect_robustness_metrics: the metrics after the call
CollectRobustnessMetrics(robustness_metrics, original_results, perturbed_results) ==
    LET rated == [robustness_metrics EXCEPT
                     !.perturbed_success_rate =
                         Frac(Count([k \in DOMAIN perturbed_results |->
                                        perturbed_results[k].judge_success]),
                              Len(perturbed_results))]
        paired == Ids(original_results) \cap Ids(perturbed_results)
    IN  IF perturbed_results = <<>> THEN robustness_metrics
        ELSE [calculate_degradation(rated) EXCEPT
                 !.task_robustness_scores =
                     [id \in (DOMAIN @) \cup paired |->
                         IF id \in paired
                         THEN RobustnessScore(LastWithId(original_results, id),
                                              LastWithId(perturbed_results, id))
                         ELSE @[id]]]

\* mutant of PerturbedTasks: the last task that declares a perturbation is left out
MutPerturbedTasks(tasks) ==
    LET Declares(t) == get_perturbations(t) # <<>>
        declaring == SelectSeq(tasks, Declares)
    IN  SubSeq(declaring, 1, Len(declaring) - 1)

\* the tasks _run_robustness_tests hands to _run_tasks
PerturbedTasks(tasks) ==
    LET Declares(t) == get_perturbations(t) # <<>> IN SelectSeq(tasks, Declares)

\* mutant of PromptFor: the last perturbation is sent
MutPromptFor(task, variant) ==
    IF variant = "perturbed" /\ get_perturbations(task) # <<>>
    THEN get_perturbations(task)[Len(get_perturbations(task))]
    ELSE task.prompt

\* the prompt _run_tasks sends for a task
PromptFor(task, variant) ==
    IF variant = "perturbed" /\ get_perturbations(task) # <<>>
    THEN get_perturbations(task)[1]
    ELSE task.prompt

\* ------------------------------------------------------------------------
\* The suite of the model: tasks shaped like those of TEST_SUITE, with short
\* prompts.  A ground truth is None, Some([str |-> chars]) or Some([json |-> value]).
\* ------------------------------------------------------------------------

Str408 == <<"4", "0", "8">>

StrYes == <<"Y", "e", "s">>

ParisPattern == <<"(", "?", "i", ")", "^", "p", "a", "r", "i", "s", "$">>

JsonA1 == [obj |-> (<<"a">> :> [num |-> <<FALSE, 1, 0>>])]

TaskA1 ==
    [id |-> "A1", category |-> "baseline", complexity |-> "simple",
     prompt |-> <<"C", "o", "m", "p", "u", "t", "e", " ", "1", "7", " ", "*", " ", "2", "4", ".">>,
     ground_truth |-> Some([str |-> Str408]), judge |-> [mode |-> "exact"],
     schema |-> None, plan |-> None,
     robustness |-> Some([perturbations |-> << <<"C", "o", "m", "p", "u", "t", "e", " ", "1", "7", "x", "2", "4", ".">>, <<"W", "h", "a", "t", " ", "i", "s", " ", "1", "7", " ", "*", " ", "2", "4", " ", "?">> >>])]

TaskA2 ==
    [id |-> "A2", category |-> "baseline", complexity |-> "simple",
     prompt |-> <<"E", "x", "t", "r", "a", "c", "t", " ", "J", "S", "O", "N">>,
     ground_truth |-> Some([json |-> JsonA1]), judge |-> [mode |-> "json"],
     schema |-> Some([type |-> "object", required |-> {<<"a">>},
                      properties |-> (<<"a">> :> [type |-> "number"])]),
     plan |-> None,
     robustness |-> Some([perturbations |-> <<>>])]

TaskA4 ==
    [id |-> "A4", category |-> "baseline", complexity |-> "simple",
     prompt |-> <<"C", "a", "p", "i", "t", "a", "l", " ", "o", "f", " ", "F", "r", "a", "n", "c", "e", "?">>,
     ground_truth |-> None, judge |-> [mode |-> "regex", pattern |-> ParisPattern],
     schema |-> None, plan |-> None,
     robustness |-> Some([perturbations |-> << <<"c", "a", "p", "i", "t", "a", "l", " ", "o", "f", " ", "f", "r", "a", "n", "c", "e">> >>])]

TaskB1 ==
    [id |-> "B1", category |-> "reasoning", complexity |-> "medium",
     prompt |-> <<"Y", "e", "s", " ", "o", "r", " ", "N", "o", "?">>,
     ground_truth |-> Some([str |-> StrYes]), judge |-> [mode |-> "exact"],
     schema |-> None, plan |-> None,
     robustness |-> Some([tool_failure_prob |-> 0])]

\* a tool task whose schema names a type JSON Schema does not have
TaskC1 ==
    [id |-> "C1", category |-> "tool", complexity |-> "medium",
     prompt |-> <<"W", "e", "a", "t", "h", "e", "r", "?">>,
     ground_truth |-> Some([json |-> JsonA1]), judge |-> [mode |-> "json"],
     schema |-> Some([type |-> "objekt"]), plan |-> Some(<<"weather_api">>),
     robustness |-> None]

\* a tool task with a valid schema, run by evaluate_multiple_patterns only
TaskC2 ==
    [id |-> "C2", category |-> "tool", complexity |-> "medium",
     prompt |-> <<"U", "S", "D", " ", "t", "o", " ", "E", "U", "R", "?">>,
     ground_truth |-> Some([json |-> JsonA1]), judge |-> [mode |-> "json"],
     schema |-> Some([type |-> "object", required |-> {<<"a">>},
                      properties |-> (<<"a">> :> [type |-> "number"])]),
     plan |-> Some(<<"fx_api", "calculator">>),
     robustness |-> Some([tool_failure_prob |-> 0])]

Pool == <<TaskA1, TaskC1, TaskA2, TaskA4, TaskB1>>

RECURSIVE SubSeqs(_)
\* the order-preserving sub-sequences of a sequence
SubSeqs(seq) ==
    IF seq = <<>> THEN {<<>>}
    ELSE LET rest == SubSeqs(Tail(seq))
         IN  rest \cup {<<Head(seq)>> \o r : r \in rest}

\* the suites evaluate_pattern is run on
Suites == {t \in SubSeqs(Pool) : Len(t) <= MaxTasks}

\* the outputs the agent of the model may produce for a task, with the seconds
\* the invocation takes
CandidateOutputs(task) ==
    CASE task.id = "A1" -> {<<Str408, 1>>, <<<<"1", "7", "*", "2", "4", "=", "4", "0", "8">>, 2>>}
      [] task.id = "A2" -> {<<<<"{", "\"", "a", "\"", ":", "1", "}">>, 1>>, <<<<"{", "\"", "a", "\"", ":", "2", "}">>, 3>>}
      [] task.id = "A4" -> {<<<<"P", "a", "r", "i", "s">>, 2>>, <<<<" ", "p", "a", "r", "i", "s", " ">>, 1>>}
      [] task.id = "B1" -> {<<StrYes, 1>>, <<<<"N", "o", ".">>, 2>>}
      [] task.id = "C1" -> {<<<<"{", "\"", "a", "\"", ":", "1", "}">>, 2>>, <<<<"s", "u", "n", "n", "y">>, 1>>}
      [] task.id = "C2" -> {<<<<"{", "\"", "a", "\"", ":", "1", "}">>, 1>>, <<<<"{", "\"", "a", "\"", ":", "2", "}">>, 2>>}

\* the states without messages the agent of the model may return: the answer
\* as a plain output string, in the state itself or under "values"
PlainStates(task) ==
    CASE task.id = "B1" -> {[messages |-> <<>>, output |-> StrYes]}
      [] task.id = "A4" -> {[values |-> [output |-> <<"P", "a", "r", "i", "s">>]]}
      [] OTHER -> {}

\* what graph.invoke may do: raise, or return a state whose last message holds
\* a candidate output (under "messages" after 1 second, under "values" otherwise),
\* or return a state without messages
Outcomes(task, prompt) ==
    {[raises |-> TRUE, error |-> "agent failure", response |-> EmptyMap, duration |-> 0]}
    \cup
    {[raises |-> FALSE, error |-> "",
      response |-> IF c[2] = 1
                   THEN [messages |-> <<[content |-> prompt], [content |-> c[1]]>>]
                   ELSE [values |-> [messages |-> <<[content |-> prompt], [content |-> c[1]]>>]],
      duration |-> c[2]] : c \in CandidateOutputs(task)}
    \cup
    {[raises |-> FALSE, error |-> "", response |-> r, duration |-> 1] : r \in PlainStates(task)}

\* ------------------------------------------------------------------------
\* State
\* ------------------------------------------------------------------------

VARIABLES
    test_tasks,           \* evaluate_pattern: the tasks argument
    include_robustness,   \* evaluate_pattern: the flag
    delay_between_tasks,  \* PatternEvaluator.delay_between_tasks
    pc,                   \* where evaluate_pattern stands
    variant,              \* _run_tasks: "original" or "perturbed"
    tasks,                \* _run_tasks: the list it iterates
    i,                    \* _run_tasks: tasks completed so far
    results,              \* _run_tasks: its local results list
    original_results,     \* evaluate_pattern: results of the original pass
    perturbed_results,    \* evaluate_pattern: results of the robustness pass
    metrics,              \* evaluate_pattern: the PatternMetrics
    trace,                \* history: invocations, judged results and pauses, in order
    raised,               \* history: per result of the running pass, the exception caught
    returned,             \* history: per result of the running pass, what graph.invoke returned
    j_in,                 \* Judge.evaluate: the arguments under test
    j_strict,             \* Judge.evaluate(..., lenient=False), once called
    j_lenient,            \* Judge.evaluate(..., lenient=True), once called
    d_metrics,            \* a RobustnessMetrics under test
    d_done,               \* calculate_degradation was called on d_metrics
    patterns,             \* evaluate_multiple_patterns: the keys of patterns, in order
    pattern_index,        \* evaluate_multiple_patterns: position of the pattern evaluated
    all_results,          \* evaluate_multiple_patterns: its results dict
    comparison,           \* evaluate_multiple_patterns: the comparison, once computed
    c_metrics,            \* compare_patterns: the pattern_metrics under test
    c_report,             \* compare_patterns(c_metrics), once called
    c_rendered,           \* the report generated from c_metrics, once generated
    t_in,                 \* _run_single_task: the task, the prompt and what graph.invoke does
    t_result,             \* _run_single_task: the TaskResult, once returned
    m_in,                 \* a PatternMetrics under test
    m_out,                \* PatternMetrics.to_dict of m_in, once called
    s_node,               \* graph_pattern_stateful: the node to run next
    s_state,              \* graph_pattern_stateful: the StatefulState
    s_visits,             \* history: the nodes of graph_pattern_stateful that ran, in order
    tot_node,             \* graph_pattern_tree_of_thoughts: the node to run next
    tot_state,            \* graph_pattern_tree_of_thoughts: the TreeOfThoughtsState
    tot_visits            \* history: the nodes of graph_pattern_tree_of_thoughts that ran

evalVars == <<test_tasks, include_robustness, delay_between_tasks, pc, variant, tasks, i,
              results, original_results, perturbed_results, metrics, trace, raised, returned>>

judgeVars == <<j_in, j_strict, j_lenient>>

degrVars == <<d_metrics, d_done>>

multiVars == <<patterns, pattern_index, all_results, comparison>>

cmpVars == <<c_metrics, c_report, c_rendered>>

taskVars == <<t_in, t_result>>

rateVars == <<m_in, m_out>>

statefulVars == <<s_node, s_state, s_visits>>

totVars == <<tot_node, tot_state, tot_visits>>

graphVars == <<s_node, s_state, s_visits, tot_node, tot_state, tot_visits>>

vars == <<test_tasks, include_robustness, delay_between_tasks, pc, variant, tasks, i,
          results, original_results, perturbed_results, metrics, trace, raised, returned,
          j_in, j_strict, j_lenient, d_metrics, d_done,
          patterns, pattern_index, all_results, comparison, c_metrics, c_report, c_rendered,
          t_in, t_result, m_in, m_out, s_node, s_state, s_visits,
          tot_node, tot_state, tot_visits>>

\* the pattern_name evaluate_pattern is called with
PatternName == patterns[pattern_index]

\* the evaluator before evaluate_pattern is called
EvalIdle ==
    /\ pc = "idle"
    /\ variant = "original"
    /\ tasks = <<>>
    /\ i = 0
    /\ results = <<>>
    /\ original_results = <<>>
    /\ perturbed_results = <<>>
    /\ metrics = NewPatternMetrics(PatternName)
    /\ trace = <<>>
    /\ raised = <<>>
    /\ returned = <<>>

NoCase == [output |-> <<>>, ground_truth |-> None, judge_config |-> EmptyMap, schema |-> None]

JudgeIdle == j_in = NoCase /\ j_strict = None /\ j_lenient = None

DegrIdle == d_metrics = NewRobustnessMetrics /\ d_done = FALSE

\* evaluate_multiple_patterns entered with the patterns of the given names
MultiIdle(names) == patterns = names /\ pattern_index = 1 /\ all_results = <<>> /\ comparison = None

CmpIdle == c_metrics = <<>> /\ c_report = None /\ c_rendered = None

TaskIdle == t_in = None /\ t_result = None

RateIdle == m_in = None /\ m_out = None

\* graph_pattern_stateful has not been invoked
StatefulIdle == s_node = "idle" /\ s_state = EmptyMap /\ s_visits = <<>>

\* graph_pattern_tree_of_thoughts has not been invoked
ToTIdle == tot_node = "idle" /\ tot_state = EmptyMap /\ tot_visits = <<>>

\* no graph has been invoked
GraphIdle == StatefulIdle /\ ToTIdle

\* ------------------------------------------------------------------------
\* PatternEvaluator.evaluate_pattern
\* ------------------------------------------------------------------------

Init ==
    /\ test_tasks \in Suites
    /\ include_robustness \in BOOLEAN
    /\ delay_between_tasks \in {0 - 1, 0, 2}
    /\ MultiIdle(<<"ReAct">>)
    /\ EvalIdle
    /\ JudgeIdle
    /\ DegrIdle
    /\ CmpIdle
    /\ TaskIdle
    /\ RateIdle
    /\ GraphIdle

Event(kind, task_id, prompt) ==
    [ev |-> kind, pattern |-> PatternName, variant |-> variant, task_id |-> task_id,
     prompt |-> prompt]

\* evaluate_pattern up to the first await: metrics created, _run_tasks entered
EvaluatePattern ==
    /\ pc = "idle"
    /\ metrics' = NewPatternMetrics(PatternName)
    /\ tasks' = test_tasks
    /\ variant' = "original"
    /\ i' = 0
    /\ results' = <<>>
    /\ raised' = <<>>
    /\ returned' = <<>>
    /\ pc' = "run_tasks"
    /\ UNCHANGED <<test_tasks, include_robustness, delay_between_tasks, original_results,
                   perturbed_results, trace, judgeVars, degrVars, multiVars, cmpVars,
                   taskVars, rateVars, graphVars>>

\* mutant of InvokeAgent: the next task is invoked without awaiting the one in
\* flight
MutInvokeAgent ==
    /\ pc \in {"run_tasks", "invoking"}
    /\ i < Len(tasks)
    /\ trace' = Append(trace, Event("invoke", tasks[i + 1].id, PromptFor(tasks[i + 1], variant)))
    /\ pc' = "invoking"
    /\ UNCHANGED <<test_tasks, include_robustness, delay_between_tasks, variant, tasks, i,
                   results, original_results, perturbed_results, metrics, raised, returned,
                   judgeVars, degrVars, multiVars, cmpVars, taskVars, rateVars, graphVars>>

\* _run_tasks: the loop takes the next task and awaits graph.invoke
InvokeAgent ==
    /\ pc = "run_tasks"
    /\ i < Len(tasks)
    /\ trace' = Append(trace, Event("invoke", tasks[i + 1].id, PromptFor(tasks[i + 1], variant)))
    /\ pc' = "invoking"
    /\ UNCHANGED <<test_tasks, include_robustness, delay_between_tasks, variant, tasks, i,
                   results, original_results, perturbed_results, metrics, raised, returned,
                   judgeVars, degrVars, multiVars, cmpVars, taskVars, rateVars, graphVars>>

\* the exception _run_single_task catches for an outcome, if any
Caught(task, outcome) ==
    LET output == ResponseOutput(outcome.response)
        strict == evaluate(output, task.ground_truth, task.judge, task.schema, FALSE)
        lenient == evaluate(output, task.ground_truth, task.judge, task.schema, TRUE)
    IN  IF outcome.raises THEN Some(outcome.error)
        ELSE IF strict.raised THEN Some(strict.msg[1])
        ELSE IF lenient.raised THEN Some(lenient.msg[1])
        ELSE None

\* mutant of CompleteTask: the pause is taken after the last task as well
MutCompleteTask(outcome) ==
    LET task == tasks[i + 1]
        result == RunSingleTask(PatternName, task, PromptFor(task, variant), outcome)
    IN  /\ results' = Append(results, result)
        /\ raised' = Append(raised, Caught(task, outcome))
        /\ returned' = Append(returned, IF outcome.raises THEN None ELSE Some(outcome.response))
        /\ trace' = Append(trace, Event("judged", task.id, PromptFor(task, variant)))
        /\ i' = i + 1
        /\ pc' = IF i + 1 <= Len(tasks) /\ delay_between_tasks > 0 THEN "sleeping" ELSE "run_tasks"
        /\ UNCHANGED <<test_tasks, include_robustness, delay_between_tasks, variant, tasks,
                       original_results, perturbed_results, metrics, judgeVars, degrVars,
                       multiVars, cmpVars, taskVars, rateVars, graphVars>>

\* the rest of the loop body once graph.invoke has completed with the outcome
CompleteTask(outcome) ==
    LET task == tasks[i + 1]
        result == RunSingleTask(PatternName, task, PromptFor(task, variant), outcome)
    IN  /\ results' = Append(results, result)
        /\ raised' = Append(raised, Caught(task, outcome))
        /\ returned' = Append(returned, IF outcome.raises THEN None ELSE Some(outcome.response))
        /\ trace' = Append(trace, Event("judged", task.id, PromptFor(task, variant)))
        /\ i' = i + 1
        /\ pc' = IF i + 1 < Len(tasks) /\ delay_between_tasks > 0 THEN "sleeping" ELSE "run_tasks"
        /\ UNCHANGED <<test_tasks, include_robustness, delay_between_tasks, variant, tasks,
                       original_results, perturbed_results, metrics, judgeVars, degrVars,
                       multiVars, cmpVars, taskVars, rateVars, graphVars>>

\* graph.invoke returns a state
AgentReturns ==
    /\ pc = "invoking"
    /\ \E outcome \in Outcomes(tasks[i + 1], PromptFor(tasks[i + 1], variant)) :
          ~outcome.raises /\ CompleteTask(outcome)

\* graph.invoke raises
AgentRaises ==
    /\ pc = "invoking"
    /\ \E outcome \in Outcomes(tasks[i + 1], PromptFor(tasks[i + 1], variant)) :
          outcome.raises /\ CompleteTask(outcome)

\* asyncio.sleep(self.delay_between_tasks)
Sleep ==
    /\ pc = "sleeping"
    /\ trace' = Append(trace, Event("sleep", "", <<>>))
    /\ pc' = "run_tasks"
    /\ UNCHANGED <<test_tasks, include_robustness, delay_between_tasks, variant, tasks, i,
                   results, original_results, perturbed_results, metrics, raised, returned,
                   judgeVars, degrVars, multiVars, cmpVars, taskVars, rateVars, graphVars>>

\* the original pass returns: the three folds and original_success_rate
FinishOriginalPass ==
    /\ pc = "run_tasks"
    /\ variant = "original"
    /\ i = Len(tasks)
    /\ original_results' = results
    /\ LET success == CollectSuccessMetrics(metrics.success, results, test_tasks)
       IN  metrics' = [metrics EXCEPT
                !.success = success,
                !.efficiency = CollectEfficiencyMetrics(@, results),
                !.controllability = CollectControllabilityMetrics(@, results, test_tasks),
                !.robustness.original_success_rate = success_rate(success)]
    /\ pc' = IF include_robustness THEN "robustness" ELSE "done"
    /\ UNCHANGED <<test_tasks, include_robustness, delay_between_tasks, variant, tasks, i,
                   results, perturbed_results, trace, raised, returned,
                   judgeVars, degrVars, multiVars, cmpVars, taskVars, rateVars, graphVars>>

\* _run_robustness_tests: some task declares a perturbation, _run_tasks is entered
RunRobustnessTests ==
    /\ pc = "robustness"
    /\ PerturbedTasks(test_tasks) # <<>>
    /\ tasks' = PerturbedTasks(test_tasks)
    /\ variant' = "perturbed"
    /\ i' = 0
    /\ results' = <<>>
    /\ raised' = <<>>
    /\ returned' = <<>>
    /\ pc' = "run_tasks"
    /\ UNCHANGED <<test_tasks, include_robustness, delay_between_tasks, original_results,
                   perturbed_results, metrics, trace, judgeVars, degrVars, multiVars, cmpVars,
                   taskVars, rateVars, graphVars>>

\* mutant of NoPerturbedTasks: _collect_robustness_metrics goes on to
\* calculate_degradation without perturbed results
MutNoPerturbedTasks ==
    /\ pc = "robustness"
    /\ PerturbedTasks(test_tasks) = <<>>
    /\ perturbed_results' = <<>>
    /\ metrics' = [metrics EXCEPT !.robustness = calculate_degradation(@)]
    /\ pc' = "done"
    /\ UNCHANGED <<test_tasks, include_robustness, delay_between_tasks, variant, tasks, i,
                   results, original_results, trace, raised, returned,
                   judgeVars, degrVars, multiVars, cmpVars, taskVars, rateVars, graphVars>>

\* _run_robustness_tests returns [] and _collect_robustness_metrics returns at once
NoPerturbedTasks ==
    /\ pc = "robustness"
    /\ PerturbedTasks(test_tasks) = <<>>
    /\ perturbed_results' = <<>>
    /\ metrics' = [metrics EXCEPT
            !.robustness = CollectRobustnessMetrics(@, original_results, <<>>)]
    /\ pc' = "done"
    /\ UNCHANGED <<test_tasks, include_robustness, delay_between_tasks, variant, tasks, i,
                   results, original_results, trace, raised, returned,
                   judgeVars, degrVars, multiVars, cmpVars, taskVars, rateVars, graphVars>>

\* mutant of FinishRobustnessPass: the perturbed results are folded into the
\* efficiency samples as well
MutFinishRobustnessPass ==
    /\ pc = "run_tasks"
    /\ variant = "perturbed"
    /\ i = Len(tasks)
    /\ perturbed_results' = results
    /\ metrics' = [metrics EXCEPT
            !.efficiency = CollectEfficiencyMetrics(@, results),
            !.robustness = CollectRobustnessMetrics(@, original_results, results)]
    /\ pc' = "done"
    /\ UNCHANGED <<test_tasks, include_robustness, delay_between_tasks, variant, tasks, i,
                   results, original_results, trace, raised, returned,
                   judgeVars, degrVars, multiVars, cmpVars, taskVars, rateVars, graphVars>>

\* the robustness pass returns: _collect_robustness_metrics
FinishRobustnessPass ==
    /\ pc = "run_tasks"
    /\ variant = "perturbed"
    /\ i = Len(tasks)
    /\ perturbed_results' = results
    /\ metrics' = [metrics EXCEPT
            !.robustness = CollectRobustnessMetrics(@, original_results, results)]
    /\ pc' = "done"
    /\ UNCHANGED <<test_tasks, include_robustness, delay_between_tasks, variant, tasks, i,
                   results, original_results, trace, raised, returned,
                   judgeVars, degrVars, multiVars, cmpVars, taskVars, rateVars, graphVars>>

Next ==
    \/ EvaluatePattern
    \/ InvokeAgent
    \/ AgentReturns
    \/ AgentRaises
    \/ Sleep
    \/ FinishOriginalPass
    \/ RunRobustnessTests
    \/ NoPerturbedTasks
    \/ FinishRobustnessPass

Spec == Init /\ [][Next]_vars

\* the suites whose runs are followed to their end: one of the two tasks and
\* no task declaring a perturbation
LiveSuites == {<<TaskA2, TaskA1>>, <<TaskB1>>}

\* the arguments of the runs followed to their end
InitLive ==
    /\ test_tasks \in LiveSuites
    /\ include_robustness \in BOOLEAN
    /\ delay_between_tasks \in {0, 2}
    /\ MultiIdle(<<"ReAct">>)
    /\ EvalIdle
    /\ JudgeIdle
    /\ DegrIdle
    /\ CmpIdle
    /\ TaskIdle
    /\ RateIdle
    /\ GraphIdle

\* the steps of the evaluator's own code: every step but the completion of
\* graph.invoke
EvaluatorStep ==
    \/ EvaluatePattern
    \/ InvokeAgent
    \/ Sleep
    \/ FinishOriginalPass
    \/ RunRobustnessTests
    \/ NoPerturbedTasks
    \/ FinishRobustnessPass

\* evaluate_pattern is called and every step of the evaluator's own code is
\* taken (a coroutine runs on once awaited; asyncio.sleep returns); nothing is
\* assumed of graph.invoke
SpecLive ==
    /\ InitLive
    /\ [][Next]_vars
    /\ WF_vars(EvaluatorStep)

\* ------------------------------------------------------------------------
\* Judge.evaluate on enumerated arguments
\* ------------------------------------------------------------------------

ShortAlphabet == {"1", ".", "a", " ", "\n", "[", "]"}

\* every string over ShortAlphabet of at most MaxLen characters
ShortStrings == UNION {[1..n -> ShortAlphabet] : n \in 0..MaxLen}

Case(output, ground_truth, judge_config, schema) ==
    [output |-> output, ground_truth |-> ground_truth, judge_config |-> judge_config,
     schema |-> schema]

Json1 == [arr |-> <<[num |-> <<FALSE, 1, 0>>]>>]

\* ground truth, judge configuration and schema of the tasks judged on short strings
ShortTasks ==
    {<<g, c, None>> :
        g \in {None, Some([str |-> <<"1">>]), Some([str |-> <<"1", ".", "1">>]), Some([str |-> <<"a">>]),
               Some([str |-> <<"a", ".">>]), Some([str |-> <<"a", " ", "a">>])},
        c \in {[mode |-> "exact"], EmptyMap}}
    \cup
    {<<None, c, None>> :
        c \in {[mode |-> "regex", pattern |-> <<"^", "a", "$">>], [mode |-> "regex", pattern |-> <<"a">>],
               [mode |-> "regex", pattern |-> <<"(">>], [mode |-> "regex", pattern |-> <<>>],
               [mode |-> "regex"], [mode |-> "fuzzy"]}}
    \cup
    {<<g, [mode |-> "json"], sc>> :
        g \in {None, Some([json |-> Json1])},
        sc \in {None, Some(EmptyMap), Some([type |-> "array"]), Some([type |-> "arrray"])}}

ProductSchema ==
    [type |-> "object", required |-> {<<"a">>, <<"b">>},
     properties |-> (<<"a">> :> [type |-> "string"]) @@ (<<"b">> :> [type |-> "number"])]

ProductTruth ==
    [obj |-> (<<"a">> :> [str |-> <<"x">>]) @@ (<<"b">> :> [num |-> <<FALSE, 9, 0>>])]

\* the documented examples and the task shapes of TEST_SUITE
LongCases ==
    {Case(<<"n", "o", " ", "d", "a", "t", "e", " ", "2", "0", "2", "5">>, Some([str |-> <<"2", "0", "2", "5", "-", "1", "0", "-", "1", "2">>]), [mode |-> "exact"], None),
     Case(<<"T", "h", "e", " ", "a", "n", "s", "w", "e", "r", " ", "i", "s">>, Some([str |-> <<"A", "n", "n", "a">>]), [mode |-> "exact"], None),
     Case(<<"I", "t", " ", "i", "s", " ", "T", "h", "e", " ", "a", "n", "s", "w", "e", "r", " ", "i", "s", " ", "A", "n", "n", "a">>, Some([str |-> <<"A", "n", "n", "a">>]), [mode |-> "exact"], None),
     Case(<<"A", " ", "B">>, Some([str |-> <<"A", "A", "A", "A", "A", "A", "A", "A", "A", "A", "A", "A", "A", "A", "A", "A", "A", "A", "A", "A", "A", "A", "A", "A", "A", "A", "A", "A", "A", "A">>]), [mode |-> "exact"], None),
     Case(<<"A", " ", "B">>, Some([str |-> <<"A", "A", "A", "A", "A", "A", "A", "A", "A", "A", "A", "A", "A", "A", "A", "A", "A", "A", "A", "A", "A", "A", "A", "A", "A", "A", "A", "A", "A">>]), [mode |-> "exact"], None),
     Case(<<"I", "t", " ", "i", "s", " ", "N", "o", "n", "e", ".">>, None, [mode |-> "exact"], None),
     Case(<<"1", "7", "*", "2", "4", "=", "4", "0", "8">>, Some([str |-> Str408]), [mode |-> "exact"], None),
     Case(Str408, Some([str |-> Str408]), [mode |-> "exact"], None),
     Case(<<"T", "h", "e", " ", "c", "o", "s", "t", " ", "o", "f", " ", "1", "2", " ", "a", "p", "p", "l", "e", "s", " ", "i", "s", " ", "$", "2", "0", ".">>, Some([str |-> <<"2", "0">>]), [mode |-> "exact"], None),
     Case(<<"A", "n", "n", "a", " ", "i", "s", " ", "t", "h", "e", " ", "s", "h", "o", "r", "t", "e", "s", "t", ".">>, Some([str |-> <<"A", "n", "n", "a">>]), [mode |-> "exact"], None),
     Case(<<"T", "h", "e", " ", "a", "n", "s", "w", "e", "r", " ", "i", "s", " ", "A", "n", "n", "a", ".">>, Some([str |-> <<"A", "n", "n", "a">>]), [mode |-> "exact"], None),
     Case(<<"Y", "e", "s", ".">>, Some([str |-> <<"Y", "e", "s", ".">>]), [mode |-> "exact"], None),
     Case(<<"I", "S", "O", " ", "2", "0", "2", "5", "-", "1", "0", "-", "1", "2", ".">>, Some([str |-> <<"2", "0", "2", "5", "-", "1", "0", "-", "1", "2">>]), [mode |-> "exact"], None),
     Case(<<"2", "0", "2", "5", "-", "1", "0", "-", "1", "2">>, Some([str |-> <<"2", "0", "2", "5", "-", "1", "0", "-", "1", "2">>]), [mode |-> "exact"], None),
     Case(<<"P", "a", "r", "i", "s">>, None, [mode |-> "regex", pattern |-> ParisPattern], None),
     Case(<<"P", "A", "R", "I", "S">>, None, [mode |-> "regex", pattern |-> ParisPattern], None),
     Case(<<" ", "p", "a", "r", "i", "s", " ">>, None, [mode |-> "regex", pattern |-> ParisPattern], None),
     Case(<<"p", "a", "r", "i", "s", " ", "c", "i", "t", "y">>, None, [mode |-> "regex", pattern |-> ParisPattern], None),
     Case(<<"{", "\"", "a", "\"", ":", " ", "\"", "x", "\"", ",", " ", "\"", "b", "\"", ":", " ", "9", "}">>, Some([json |-> ProductTruth]), [mode |-> "json"],
          Some(ProductSchema)),
     Case(<<Backquote, Backquote, Backquote, "j", "s", "o", "n", " ", "{", "\"", "a", "\"", ":", " ", "\"", "x", "\"", ",", " ", "\"", "b", "\"", ":", " ", "9", "}", " ", Backquote, Backquote, Backquote>>, Some([json |-> ProductTruth]), [mode |-> "json"],
          Some(ProductSchema)),
     Case(<<"H", "e", "r", "e", ":", " ", "{", "\"", "a", "\"", ":", " ", "\"", "x", "\"", ",", " ", "\"", "b", "\"", ":", " ", "9", ".", "0", ",", " ", "\"", "c", "\"", ":", " ", "[", "1", "]", "}", " ">>, Some([json |-> ProductTruth]),
          [mode |-> "json", ignore_fields |-> {<<"c">>}], Some(ProductSchema)),
     Case(<<"{", "\"", "a", "\"", ":", " ", "\"", "x", "\"", ",", " ", "\"", "b", "\"", ":", " ", "8", "}">>, Some([json |-> ProductTruth]), [mode |-> "json"],
          Some(ProductSchema)),
     Case(<<"{", "\"", "a", "\"", ":", " ", "\"", "x", "\"", "}">>, Some([json |-> ProductTruth]), [mode |-> "json"],
          Some(ProductSchema)),
     Case(<<"{", "\"", "a", "\"", ":", " ", "\"", "x", "\"", ",", " ", "\"", "b", "\"", ":", " ", "9", "}">>, None, [mode |-> "json"], Some([type |-> "objekt"])),
     Case(<<"{", "\"", "a", "\"", ":", " ", "\"", "x", "\"", ",", " ", "\"", "b", "\"", ":", " ", "9">>, None, [mode |-> "json"], Some([type |-> "objekt"])),
     Case(<<"[", "1", "]">>, Some([json |-> Json1]), [mode |-> "json", ignore_fields |-> {<<"a">>}], None),
     Case(<<"{", "\"", "a", "\"", ":", "1", "}">>, Some([json |-> Json1]), [mode |-> "json", ignore_fields |-> {<<"a">>}], None),
     Case(<<"[", "1", "]">>, Some([json |-> JsonA1]), [mode |-> "json", ignore_fields |-> {<<"a">>}], None),
     Case(<<"{", "\"", "a", "\"", ":", "2", "}">>, Some([json |-> JsonA1]), [mode |-> "json", ignore_fields |-> {<<"a">>}], None)}

JudgeCases ==
    {Case(o, t[1], t[2], t[3]) : o \in ShortStrings, t \in ShortTasks} \cup LongCases

InitJudge ==
    /\ j_in \in JudgeCases
    /\ j_strict = None
    /\ j_lenient = None
    /\ test_tasks = <<>>
    /\ include_robustness = FALSE
    /\ delay_between_tasks = 0
    /\ MultiIdle(<<"ReAct">>)
    /\ EvalIdle
    /\ DegrIdle
    /\ CmpIdle
    /\ TaskIdle
    /\ RateIdle
    /\ GraphIdle

\* Judge.evaluate(output, ground_truth, judge_config, schema, lenient=False)
EvaluateStrict ==
    /\ j_in # NoCase
    /\ j_strict = None
    /\ j_strict' = Some(evaluate(j_in.output, j_in.ground_truth, j_in.judge_config,
                                 j_in.schema, FALSE))
    /\ UNCHANGED <<j_in, j_lenient, evalVars, degrVars, multiVars, cmpVars, taskVars, rateVars, graphVars>>

\* Judge.evaluate(output, ground_truth, judge_config, schema, lenient=True)
EvaluateLenient ==
    /\ j_in # NoCase
    /\ j_lenient = None
    /\ j_lenient' = Some(evaluate(j_in.output, j_in.ground_truth, j_in.judge_config,
                                  j_in.schema, TRUE))
    /\ UNCHANGED <<j_in, j_strict, evalVars, degrVars, multiVars, cmpVars, taskVars, rateVars, graphVars>>

NextJudge == EvaluateStrict \/ EvaluateLenient

SpecJudge == InitJudge /\ [][NextJudge]_vars

\* ------------------------------------------------------------------------
\* RobustnessMetrics.calculate_degradation on enumerated rates
\* ------------------------------------------------------------------------

\* the rates k/d for the denominators up to RateDen
Rates == UNION {{Frac(k, d) : k \in 0..d} : d \in 1..RateDen}

InitDegr ==
    /\ d_metrics \in {[NewRobustnessMetrics EXCEPT !.original_success_rate = o,
                                                   !.perturbed_success_rate = q] :
                         o \in Rates, q \in Rates}
    /\ d_done = FALSE
    /\ test_tasks = <<>>
    /\ include_robustness = FALSE
    /\ delay_between_tasks = 0
    /\ MultiIdle(<<"ReAct">>)
    /\ EvalIdle
    /\ JudgeIdle
    /\ CmpIdle
    /\ TaskIdle
    /\ RateIdle
    /\ GraphIdle

\* robustness.calculate_degradation()
CalculateDegradation ==
    /\ ~d_done
    /\ d_metrics' = calculate_degradation(d_metrics)
    /\ d_done' = TRUE
    /\ UNCHANGED <<evalVars, judgeVars, multiVars, cmpVars, taskVars, rateVars, graphVars>>

NextDegr == CalculateDegradation

SpecDegr == InitDegr /\ [][NextDegr]_vars

\* ------------------------------------------------------------------------
\* MetricsAggregator.compare_patterns on enumerated mappings
\* ------------------------------------------------------------------------

\* the keys of the patterns dict of run_standardized_test.py, in its order
PatternNames == <<"ReAct", "Sequential", "State-based", "CoT">>

\* a RobustnessMetrics with a degradation of d percent, and a
\* ControllabilityMetrics: of scores [1/2], of scores [1, 0], of scores [1]
RobustnessProfiles ==
    {[d |-> 0, c |-> [NewControllabilityMetrics EXCEPT !.format_compliance_rate = <<1, 2>>]],
     [d |-> 50, c |-> [NewControllabilityMetrics EXCEPT !.total_json_tasks = 1,
                                                        !.schema_compliant_tasks = 1]],
     [d |-> 0, c |-> [NewControllabilityMetrics EXCEPT !.format_compliance_rate = <<1, 1>>]]}

\* a PatternMetrics of two tasks, s of them passed, with the latencies lat and
\* the degradation d percent
Profile(s, lat, d, c) ==
    [pattern_name |-> "",
     success |-> [NewSuccessMetrics EXCEPT !.total_tasks = 2, !.successful_tasks = s,
                                           !.failed_tasks = 2 - s,
                                           !.lenient_successful_tasks = s],
     efficiency |-> [NewEfficiencyMetrics EXCEPT !.latencies = lat],
     robustness |-> [NewRobustnessMetrics EXCEPT
                        !.original_success_rate = Frac(s, 2),
                        !.perturbed_success_rate = Frac(s * (100 - d), 200),
                        !.degradation_percentage = <<d, 1>>],
     controllability |-> c]

Profiles ==
    {Profile(s, lat, r.d, r.c) : s \in 1..2, lat \in {<<2>>, <<1, 3>>, <<4>>},
                                 r \in RobustnessProfiles}

\* the mappings of 0..MaxPatterns patterns, keyed by the first names
CompareInputs ==
    UNION {{[k \in 1..n |->
                [name |-> PatternNames[k],
                 metrics |-> [ms[k] EXCEPT !.pattern_name = PatternNames[k]]]] :
            ms \in [1..n -> Profiles]} : n \in 0..MaxPatterns}

InitCompare ==
    /\ c_metrics \in CompareInputs
    /\ c_report = None
    /\ c_rendered = None
    /\ test_tasks = <<>>
    /\ include_robustness = FALSE
    /\ delay_between_tasks = 0
    /\ MultiIdle(<<"ReAct">>)
    /\ EvalIdle
    /\ JudgeIdle
    /\ DegrIdle
    /\ TaskIdle
    /\ RateIdle
    /\ GraphIdle

\* comparison = MetricsAggregator.compare_patterns(pattern_metrics)
ComparePatterns ==
    /\ c_report = None
    /\ c_report' = Some(compare_patterns(c_metrics))
    /\ UNCHANGED <<c_metrics, c_rendered, evalVars, judgeVars, degrVars, multiVars, taskVars,
                   rateVars, graphVars>>

\* the report functions of ReportGenerator that render the summary table
Renderers == {"markdown", "csv", "console"}

\* ReportGenerator.generate_markdown_report, generate_csv_comparison and
\* print_console_report on pattern_metrics
GenerateReport ==
    /\ c_rendered = None
    /\ \E r \in Renderers :
          c_rendered' = Some([renderer |-> r,
                              result |-> RenderTable(compare_patterns(c_metrics), RowKeys(r))])
    /\ UNCHANGED <<c_metrics, c_report, evalVars, judgeVars, degrVars, multiVars, taskVars,
                   rateVars, graphVars>>

NextCompare == ComparePatterns \/ GenerateReport

SpecCompare == InitCompare /\ [][NextCompare]_vars

\* ------------------------------------------------------------------------
\* evaluate_multiple_patterns
\* ------------------------------------------------------------------------

\* the suites evaluate_multiple_patterns is run on
MultiSuites == {<<TaskC2, TaskC1>>, <<TaskA1, TaskB1>>}

InitMulti ==
    /\ test_tasks \in MultiSuites
    /\ include_robustness \in BOOLEAN
    /\ delay_between_tasks = 2
    /\ patterns \in {SubSeq(PatternNames, 1, n) : n \in 1..MaxPatterns}
    /\ pattern_index = 1
    /\ all_results = <<>>
    /\ comparison = None
    /\ EvalIdle
    /\ JudgeIdle
    /\ DegrIdle
    /\ CmpIdle
    /\ TaskIdle
    /\ RateIdle
    /\ GraphIdle

\* results[pattern_name] = metrics
Stored == Append(all_results, [name |-> PatternName, metrics |-> metrics])

\* evaluate_pattern has returned: its metrics are stored and the loop moves to
\* the next item of patterns, where evaluate_pattern starts with fresh locals
NextPattern ==
    /\ pc = "done"
    /\ pattern_index < Len(patterns)
    /\ all_results' = Stored
    /\ pattern_index' = pattern_index + 1
    /\ pc' = "idle"
    /\ variant' = "original"
    /\ tasks' = <<>>
    /\ i' = 0
    /\ results' = <<>>
    /\ original_results' = <<>>
    /\ perturbed_results' = <<>>
    /\ metrics' = NewPatternMetrics(patterns[pattern_index + 1])
    /\ raised' = <<>>
    /\ returned' = <<>>
    /\ UNCHANGED <<test_tasks, include_robustness, delay_between_tasks, trace, patterns,
                   comparison, judgeVars, degrVars, cmpVars, taskVars, rateVars, graphVars>>

\* the last evaluate_pattern has returned: its metrics are stored, the
\* comparison is computed and results is returned
ReturnResults ==
    /\ pc = "done"
    /\ pattern_index = Len(patterns)
    /\ all_results' = Stored
    /\ comparison' = Some(compare_patterns(Stored))
    /\ pc' = "returned"
    /\ UNCHANGED <<test_tasks, include_robustness, delay_between_tasks, variant, tasks, i,
                   results, original_results, perturbed_results, metrics, trace, raised, returned,
                   patterns, pattern_index, judgeVars, degrVars, cmpVars, taskVars, rateVars, graphVars>>

NextMulti ==
    \/ EvaluatePattern
    \/ InvokeAgent
    \/ AgentReturns
    \/ AgentRaises
    \/ Sleep
    \/ FinishOriginalPass
    \/ RunRobustnessTests
    \/ NoPerturbedTasks
    \/ FinishRobustnessPass
    \/ NextPattern
    \/ ReturnResults

SpecMulti == InitMulti /\ [][NextMulti]_vars

\* ------------------------------------------------------------------------
\* PatternEvaluator._run_single_task on enumerated tasks and agent outcomes
\* ------------------------------------------------------------------------

\* a json task whose schema is the empty schema {}, which every value satisfies
TaskEmptySchema ==
    [id |-> "A3", category |-> "baseline", complexity |-> "simple",
     prompt |-> <<"J", "S", "O", "N", "?">>,
     ground_truth |-> Some([json |-> JsonA1]), judge |-> [mode |-> "json"],
     schema |-> Some(EmptyMap), plan |-> None, robustness |-> None]

SingleTasks == {Pool[k] : k \in 1..Len(Pool)} \cup {TaskEmptySchema}

\* the prompts _run_single_task is called with for a task
SinglePrompts(task) ==
    {task.prompt} \cup (IF get_perturbations(task) # <<>> THEN {get_perturbations(task)[1]} ELSE {})

\* every candidate output of the suite, as an answer to any task
SingleOutputs == UNION {{c[1] : c \in CandidateOutputs(Pool[k])} : k \in 1..Len(Pool)}

\* the states graph.invoke may return with an answer: as the last message or as
\* the plain output, in the state itself or under "values"
Shapes(prompt, out) ==
    {[messages |-> <<[content |-> prompt], [content |-> out]>>],
     [values |-> [messages |-> <<[content |-> prompt], [content |-> out]>>]],
     [messages |-> <<>>, output |-> out],
     [values |-> [output |-> out]]}

SingleOutcomes(prompt) ==
    {[raises |-> TRUE, error |-> "agent failure", response |-> EmptyMap, duration |-> 0]}
    \cup UNION {{[raises |-> FALSE, error |-> "", response |-> r, duration |-> 1] :
                    r \in Shapes(prompt, out)} : out \in SingleOutputs}

SingleInputs ==
    UNION {UNION {{[task |-> task, prompt |-> prompt, outcome |-> outcome] :
                      outcome \in SingleOutcomes(prompt)} :
                  prompt \in SinglePrompts(task)} : task \in SingleTasks}

InitTask ==
    /\ t_in \in {Some(x) : x \in SingleInputs}
    /\ t_result = None
    /\ test_tasks = <<>>
    /\ include_robustness = FALSE
    /\ delay_between_tasks = 0
    /\ MultiIdle(<<"ReAct">>)
    /\ EvalIdle
    /\ JudgeIdle
    /\ DegrIdle
    /\ CmpIdle
    /\ RateIdle
    /\ GraphIdle

\* result = await self._run_single_task(pattern_name, graph, task, prompt)
RunTask ==
    /\ t_result = None
    /\ t_result' = Some(RunSingleTask(PatternName, t_in.v.task, t_in.v.prompt, t_in.v.outcome))
    /\ UNCHANGED <<t_in, evalVars, judgeVars, degrVars, multiVars, cmpVars, rateVars, graphVars>>

NextTask == RunTask

SpecTask == InitTask /\ [][NextTask]_vars

\* ------------------------------------------------------------------------
\* The accessors of SuccessMetrics, EfficiencyMetrics and ControllabilityMetrics
\* on enumerated counters and sample lists
\* ------------------------------------------------------------------------

\* SuccessMetrics(total_tasks=t, successful_tasks=s, failed_tasks=t - s, ...)
SuccessInputs ==
    {[NewSuccessMetrics EXCEPT !.total_tasks = t, !.successful_tasks = c[1],
                               !.failed_tasks = t - c[1],
                               !.lenient_successful_tasks = c[2]] :
        t \in 0..RateDen, c \in {x \in (0..RateDen) \X (0..RateDen) : x[1] <= x[2]}}

\* the token lists drawn: empty, those of test_metrics, and lists of which one
\* is empty or shorter
TokenInputs ==
    {<<<<>>, <<>>>>, <<<<100, 150, 200>>, <<50, 75, 100>>>>, <<<<8>>, <<>>>>, <<<<>>, <<8>>>>,
     <<<<4, 8>>, <<2>>>>}

\* EfficiencyMetrics(latencies=..., input_tokens=..., output_tokens=...)
EfficiencyInputs ==
    {[NewEfficiencyMetrics EXCEPT !.latencies = lat, !.input_tokens = tok[1],
                                  !.output_tokens = tok[2]] :
        lat \in UNION {[1..n -> 1..3] : n \in 0..MaxSamples}, tok \in TokenInputs}

\* ControllabilityMetrics(total_json_tasks=..., schema_compliant_tasks=...) and
\* ControllabilityMetrics(total_tool_tasks=..., tool_policy_compliant_tasks=...)
ControllabilityInputs ==
    {[NewControllabilityMetrics EXCEPT !.total_json_tasks = t, !.schema_compliant_tasks = c] :
        t \in 0..RateDen, c \in 0..RateDen}
    \cup
    {[NewControllabilityMetrics EXCEPT !.total_tool_tasks = t,
                                       !.tool_policy_compliant_tasks = c] :
        t \in 0..RateDen, c \in 0..RateDen}

InitRates ==
    /\ m_in \in {Some([success |-> x]) : x \in {y \in SuccessInputs :
                                                    y.lenient_successful_tasks <= y.total_tasks}}
           \cup {Some([efficiency |-> x]) : x \in EfficiencyInputs}
           \cup {Some([controllability |-> x]) :
                    x \in {y \in ControllabilityInputs :
                              /\ y.schema_compliant_tasks <= y.total_json_tasks
                              /\ y.tool_policy_compliant_tasks <= y.total_tool_tasks}}
    /\ m_out = None
    /\ test_tasks = <<>>
    /\ include_robustness = FALSE
    /\ delay_between_tasks = 0
    /\ MultiIdle(<<"ReAct">>)
    /\ EvalIdle
    /\ JudgeIdle
    /\ DegrIdle
    /\ CmpIdle
    /\ TaskIdle
    /\ GraphIdle

\* the accessors of the metrics object under test, each called once
Accessors(m) ==
    IF "success" \in DOMAIN m
    THEN [success_rate |-> success_rate(m.success),
          lenient_success_rate |-> lenient_success_rate(m.success),
          failure_rate |-> failure_rate(m.success)]
    ELSE IF "efficiency" \in DOMAIN m
    THEN [avg_latency |-> avg_latency(m.efficiency),
          median_latency |-> median_latency(m.efficiency),
          avg_total_tokens |-> avg_total_tokens(m.efficiency)]
    ELSE [schema_compliance_rate |-> schema_compliance_rate(m.controllability),
          tool_policy_compliance_rate |-> tool_policy_compliance_rate(m.controllability)]

ReadRates ==
    /\ m_out = None
    /\ m_out' = Some(Accessors(m_in.v))
    /\ UNCHANGED <<m_in, evalVars, judgeVars, degrVars, multiVars, cmpVars, taskVars, graphVars>>

NextRates == ReadRates

SpecRates == InitRates /\ [][NextRates]_vars

\* ------------------------------------------------------------------------
\* graph_pattern_stateful (agent/pattern_stateful.py)
\* ------------------------------------------------------------------------

\* adaptive_processor runs the model allows in one invocation of the graph
MaxRuns == 6

\* str.upper, one character
UpperChar(c) ==
    IF \E k \in 1..26 : c = LowerChars[k]
    THEN UpperChars[CHOOSE k \in 1..26 : c = LowerChars[k]]
    ELSE c

\* str.upper
Upper(s) == [k \in 1..Len(s) |-> UpperChar(s[k])]

\* p in s
Contains(s, p) == \E k \in 1..(Len(s) + 1) : OccursAt(s, p, k)

\* what the analyzer's model call may answer
AnalysisTexts ==
    {<<"C", "O", "M", "P", "L", "E", "X", "I", "T", "Y", ":", " ", "S", "I", "M", "P", "L", "E">>,
     <<"C", "o", "m", "p", "l", "e", "x", "i", "t", "y", ":", " ", "C", "o", "m", "p", "l", "e", "x">>,
     <<"C", "O", "M", "P", "L", "E", "X", "I", "T", "Y", ":", " ", "M", "E", "D", "I", "U", "M">>,
     <<"u", "n", "s", "u", "r", "e">>}

\* what a processor's or the validator's model call may answer: the content,
\* and whether the response carries tool calls
Responses ==
    {[content |-> c, tool_calls |-> t] :
        c \in {<<"o", "k">>, <<"E", "r", "r", "o", "r">>, <<"i", "t", " ", "f", "a", "i", "l", "e", "d">>},
        t \in BOOLEAN}

\* a dict message {"role": "assistant", "content": label + text}; the graph's
\* add_messages reducer makes it an AIMessage, whose tool_calls is empty
Assistant(label, text) == [role |-> "assistant", content |-> <<label>> \o text, tool_calls |-> FALSE]

\* the input of an invocation: {"messages": [HumanMessage(query)]}
Human(query) == [role |-> "user", content |-> query, tool_calls |-> FALSE]

\* needs_retry of adaptive_processor_node
needs_retry(response) ==
    \/ Contains(Lower(response.content), <<"e", "r", "r", "o", "r">>)
    \/ Contains(Lower(response.content), <<"f", "a", "i", "l", "e", "d">>)

\* analyzer_node: the state it returns for the model's analysis_text
analyzer_node(state, analysis_text) ==
    LET simple == Contains(Upper(analysis_text), <<"C", "O", "M", "P", "L", "E", "X", "I", "T", "Y", ":", " ", "S", "I", "M", "P", "L", "E">>)
        complex == Contains(Upper(analysis_text), <<"C", "O", "M", "P", "L", "E", "X", "I", "T", "Y", ":", " ", "C", "O", "M", "P", "L", "E", "X">>)
        complexity == IF simple THEN "simple" ELSE IF complex THEN "complex" ELSE "medium"
        strategy == IF simple THEN "direct" ELSE IF complex THEN "adaptive" ELSE "structured"
    IN  [messages |-> Append(state.messages, Assistant("Analysis: ", analysis_text)),
         complexity |-> complexity,
         retry_count |-> 0,
         max_retries |-> 3,
         decision_history |-> <<<<"Analysis", complexity, strategy>>>>,
         context |-> [analysis |-> analysis_text],
         current_strategy |-> strategy]

\* simple_processor_node and structured_processor_node: the response is
\* appended, every other key is carried over
plain_processor_node(state, label, used, response) ==
    [messages |-> Append(state.messages, Assistant(label, response.content)),
     complexity |-> state.complexity,
     retry_count |-> Get(state, "retry_count", 0),
     max_retries |-> Get(state, "max_retries", 3),
     decision_history |-> Append(Get(state, "decision_history", <<>>), <<"Processing", used>>),
     context |-> Get(state, "context", EmptyMap),
     current_strategy |-> state.current_strategy]

\* adaptive_processor_node
adaptive_processor_node(state, response) ==
    LET decision_history == Append(Get(state, "decision_history", <<>>),
                                   <<"Processing", "adaptive">>)
        retry_count == Get(state, "retry_count", 0)
    IN  IF needs_retry(response) /\ retry_count < Get(state, "max_retries", 3)
        THEN [messages |-> state.messages,
              complexity |-> state.complexity,
              retry_count |-> retry_count + 1,
              max_retries |-> Get(state, "max_retries", 3),
              decision_history |-> Append(decision_history, <<"Retry", retry_count + 1>>),
              context |-> Get(state, "context", EmptyMap),
              current_strategy |-> "adaptive_retry"]
        ELSE [messages |-> Append(state.messages,
                                  Assistant("Adaptive Processing: ", response.content)),
              complexity |-> state.complexity,
              retry_count |-> retry_count,
              max_retries |-> Get(state, "max_retries", 3),
              decision_history |-> decision_history,
              context |-> Get(state, "context", EmptyMap),
              current_strategy |-> state.current_strategy]

\* validator_node
validator_node(state, response) ==
    [messages |-> Append(state.messages, Assistant("Validation Complete: ", response.content)),
     complexity |-> state.complexity,
     retry_count |-> Get(state, "retry_count", 0),
     max_retries |-> Get(state, "max_retries", 3),
     decision_history |-> Append(Get(state, "decision_history", <<>>),
                                 <<"Validation", "completed">>),
     context |-> Get(state, "context", EmptyMap),
     current_strategy |-> state.current_strategy]

route_after_analysis(state) ==
    LET complexity == Get(state, "complexity", "medium")
        strategy == Get(state, "current_strategy", "structured")
    IN  IF complexity = "simple" \/ strategy = "direct" THEN "simple_processor"
        ELSE IF complexity = "complex" \/ strategy = "adaptive" THEN "adaptive_processor"
        ELSE "structured_processor"

route_after_processing(state) ==
    LET messages == state.messages
        strategy == Get(state, "current_strategy", "")
        retry_count == Get(state, "retry_count", 0)
        max_retries == Get(state, "max_retries", 3)
    IN  IF messages # <<>> /\ messages[Len(messages)].tool_calls THEN "tools"
        ELSE IF strategy = "adaptive_retry" /\ retry_count < max_retries
        THEN "adaptive_processor"
        ELSE "validator"

\* the number of times a node has run
Runs(node) == Len(SelectSeq(s_visits, LAMBDA n : n = node))

InitStateful ==
    /\ s_node = "analyzer"
    /\ s_state \in {[messages |-> <<Human(q)>>] : q \in {<<"2", "+", "2">>, <<"p", "l", "a", "n">>}}
    /\ s_visits = <<>>
    /\ test_tasks = <<>>
    /\ include_robustness = FALSE
    /\ delay_between_tasks = 0
    /\ MultiIdle(<<"ReAct">>)
    /\ EvalIdle
    /\ JudgeIdle
    /\ DegrIdle
    /\ CmpIdle
    /\ TaskIdle
    /\ RateIdle
    /\ ToTIdle

\* START -> analyzer, then the conditional edge route_after_analysis
Analyzer ==
    /\ s_node = "analyzer"
    /\ \E analysis_text \in AnalysisTexts :
        /\ s_state' = analyzer_node(s_state, analysis_text)
        /\ s_node' = route_after_analysis(analyzer_node(s_state, analysis_text))
    /\ s_visits' = Append(s_visits, "analyzer")
    /\ UNCHANGED <<evalVars, judgeVars, degrVars, multiVars, cmpVars, taskVars, rateVars, totVars>>

\* simple_processor, then the conditional edge route_after_processing
SimpleProcessor ==
    /\ s_node = "simple_processor"
    /\ \E response \in Responses :
        /\ s_state' = plain_processor_node(s_state, "Simple Processing: ", "simple", response)
        /\ s_node' = route_after_processing(
                         plain_processor_node(s_state, "Simple Processing: ", "simple", response))
    /\ s_visits' = Append(s_visits, "simple_processor")
    /\ UNCHANGED <<evalVars, judgeVars, degrVars, multiVars, cmpVars, taskVars, rateVars, totVars>>

\* structured_processor, then the conditional edge route_after_processing
StructuredProcessor ==
    /\ s_node = "structured_processor"
    /\ \E response \in Responses :
        /\ s_state' = plain_processor_node(s_state, "Structured Processing: ", "structured",
                                           response)
        /\ s_node' = route_after_processing(
                         plain_processor_node(s_state, "Structured Processing: ", "structured",
                                              response))
    /\ s_visits' = Append(s_visits, "structured_processor")
    /\ UNCHANGED <<evalVars, judgeVars, degrVars, multiVars, cmpVars, taskVars, rateVars, totVars>>

\* adaptive_processor, then the conditional edge route_after_processing
AdaptiveProcessor ==
    /\ s_node = "adaptive_processor"
    /\ Runs("adaptive_processor") < MaxRuns
    /\ \E response \in Responses :
        /\ s_state' = adaptive_processor_node(s_state, response)
        /\ s_node' = route_after_processing(adaptive_processor_node(s_state, response))
    /\ s_visits' = Append(s_visits, "adaptive_processor")
    /\ UNCHANGED <<evalVars, judgeVars, degrVars, multiVars, cmpVars, taskVars, rateVars, totVars>>

\* validator, then the edge to END
Validator ==
    /\ s_node = "validator"
    /\ \E response \in Responses :
        s_state' = validator_node(s_state, response)
    /\ s_node' = "END"
    /\ s_visits' = Append(s_visits, "validator")
    /\ UNCHANGED <<evalVars, judgeVars, degrVars, multiVars, cmpVars, taskVars, rateVars, totVars>>

NextStateful ==
    \/ Analyzer
    \/ SimpleProcessor
    \/ StructuredProcessor
    \/ AdaptiveProcessor
    \/ Validator

SpecStateful == InitStateful /\ [][NextStateful]_vars

\* ------------------------------------------------------------------------
\* graph_pattern_tree_of_thoughts (agent/pattern_tree_of_thoughts.py)
\* ------------------------------------------------------------------------

\* scores are kept in tenths: evaluation_threshold 0.7 is 7
TOT_CONFIG ==
    [max_depth |-> 3, thoughts_per_level |-> 3, top_k_selection |-> 2, evaluation_threshold |-> 7]

\* {**state, key: value, ...}
Updated(state, update) == update @@ state

\* a str value produced by a node: prefix + " -> ".join(path) + text
Text(prefix, path, text) == [prefix |-> prefix, path |-> path, text |-> text]

\* bool(" -> ".join(path))
JoinedIsNonEmpty(path) == Len(path) >= 2 \/ (Len(path) = 1 /\ path[1].v # "")

\* bool(s) of such a str
Truthy(s) == s.prefix # "" \/ JoinedIsNonEmpty(s.path) \/ s.text # <<>>

\* " -> ".join(path) raises TypeError when an item is not a str
JoinRaises(path) == \E k \in 1..Len(path) : ~path[k].some

\* the thought_node dict built for one thought
ThoughtNode(content, path, current_depth, reasoning) ==
    [content |-> content,
     path |-> Append(path, content),
     depth |-> current_depth + 1,
     score |-> [num |-> 0],
     reasoning |-> reasoning]

\* the thoughts substituted when the response is not JSON
SystematicThoughts ==
    [k \in 1..3 |->
        [dict |-> TRUE,
         data |-> [content |-> Some(<<"Approach 1: Systematic problem solving",
                                      "Approach 2: Systematic problem solving",
                                      "Approach 3: Systematic problem solving">>[k]),
                   reasoning |-> "Fallback"]]]

\* the except branch of thought_generation_node: three fallback thoughts
FallbackThoughts(path, current_depth) ==
    [k \in 1..3 |->
        ThoughtNode(Some(<<"Approach 1: Alternative solution method",
                           "Approach 2: Alternative solution method",
                           "Approach 3: Alternative solution method">>[k]),
                    path, current_depth, "Fallback approach")]

\* an item of data["thoughts"] that is a dict, and one that is not
ThoughtItem(data) == [dict |-> TRUE, data |-> data]

NotADict == [dict |-> FALSE, data |-> EmptyMap]

\* what the model may answer to a generation prompt: the call raises, the
\* text is not JSON, or it is a JSON object with a list of thoughts
GenerationResponses ==
    {[kind |-> "raises", thoughts |-> <<>>], [kind |-> "text", thoughts |-> <<>>]}
    \cup
    {[kind |-> "json", thoughts |-> t] :
        t \in {<<>>,
               <<ThoughtItem([content |-> Some("a"), reasoning |-> "r"])>>,
               <<ThoughtItem([content |-> None, reasoning |-> "r"])>>,
               <<ThoughtItem([content |-> Some("a")]), NotADict>>}}

\* the answers to the generation prompts of one round, one per context path:
\* any answer for the first path, and for the others the same or a failing call
GenerationRuns(n) ==
    {[k \in 1..n |-> IF k = 1 \/ ~failing THEN a ELSE [kind |-> "raises", thoughts |-> <<>>]] :
        a \in GenerationResponses, failing \in BOOLEAN}

\* the loop over thoughts: a node per dict; an item that is not a dict raises
\* inside the try, and the except branch appends the fallback thoughts
RECURSIVE NodesOf(_, _, _)
NodesOf(thoughts, path, current_depth) ==
    IF Len(thoughts) = 0 THEN <<>>
    ELSE IF ~Head(thoughts).dict THEN FallbackThoughts(path, current_depth)
    ELSE <<ThoughtNode(Get(Head(thoughts).data, "content", Some("No content")), path,
                       current_depth, Get(Head(thoughts).data, "reasoning", ""))>>
         \o NodesOf(Tail(thoughts), path, current_depth)

\* the thoughts one context path contributes
NewThoughts(path, current_depth, response) ==
    IF response.kind = "raises" THEN FallbackThoughts(path, current_depth)
    ELSE IF response.kind = "text" THEN NodesOf(SystematicThoughts, path, current_depth)
    ELSE NodesOf(response.thoughts, path, current_depth)

RECURSIVE AllNewThoughts(_, _, _)
AllNewThoughts(context_paths, current_depth, responses) ==
    IF Len(context_paths) = 0 THEN <<>>
    ELSE NewThoughts(Head(context_paths), current_depth, Head(responses))
         \o AllNewThoughts(Tail(context_paths), current_depth, Tail(responses))

\* context_paths of thought_generation_node; no model call at max_depth
ContextPaths(state) ==
    LET best_thoughts == Get(state, "best_thoughts", <<>>)
    IN  IF Get(state, "current_depth", 0) >= TOT_CONFIG.max_depth THEN <<>>
        ELSE IF Len(best_thoughts) > 0
        THEN [k \in 1..Len(best_thoughts) |-> best_thoughts[k].path]
        ELSE << <<>> >>

\* context_str is joined outside the try
thought_generation_raises(state) ==
    \E k \in 1..Len(ContextPaths(state)) : JoinRaises(ContextPaths(state)[k])

thought_generation_node(state, responses) ==
    LET current_depth == Get(state, "current_depth", 0)
        original_query == IF "original_query" \in DOMAIN state /\ state.original_query # <<>>
                          THEN state.original_query
                          ELSE state.messages[1].content
    IN  IF current_depth >= TOT_CONFIG.max_depth
        THEN Updated(state, [current_depth |-> current_depth])
        ELSE Updated(state,
                 [thought_tree |-> AllNewThoughts(ContextPaths(state), current_depth, responses),
                  current_depth |-> current_depth + 1,
                  original_query |-> original_query,
                  max_depth |-> TOT_CONFIG.max_depth,
                  evaluation_mode |-> Get(state, "evaluation_mode", FALSE)])

\* what the model may answer to an evaluation prompt
EvaluationResponses ==
    {[kind |-> "raises", data |-> EmptyMap], [kind |-> "text", data |-> EmptyMap],
     [kind |-> "json", data |-> EmptyMap],
     [kind |-> "json", data |-> [overall_score |-> [num |-> 3]]],
     [kind |-> "json", data |-> [overall_score |-> [num |-> 8]]],
     [kind |-> "json", data |-> [overall_score |-> [str |-> "0.8"]]]}

\* the answers to the evaluation prompts of one round: the same answer for
\* every thought, or the first thought answered differently
EvaluationRuns(n) ==
    {[k \in 1..n |-> IF k = 1 THEN a ELSE b] :
        a \in EvaluationResponses, b \in EvaluationResponses}

\* score of evaluation_node for one response
ScoreOf(response) ==
    IF response.kind = "json" THEN Get(response.data, "overall_score", [num |-> 5])
    ELSE [num |-> 5]

\* eval_prompt joins the thought's path outside the try
evaluation_raises(state) ==
    \E k \in 1..Len(state.thought_tree) : JoinRaises(state.thought_tree[k].path)

evaluation_node(state, responses) ==
    Updated(state,
        [thought_tree |-> [k \in 1..Len(state.thought_tree) |->
                              [state.thought_tree[k] EXCEPT !.score = ScoreOf(responses[k])]],
         evaluation_mode |-> Get(state, "evaluation_mode", FALSE)])

IsNum(score) == "num" \in DOMAIN score

\* the sort key; the str scores of the model are all the same string
SortKey(thought) == IF IsNum(thought.score) THEN thought.score.num ELSE 0

\* sorted(thought_tree, key=score, reverse=True): stable, highest first
RECURSIVE SortedThoughts(_)
SortedThoughts(thought_tree) ==
    IF Len(thought_tree) = 0 THEN <<>>
    ELSE LET top == Max({SortKey(thought_tree[k]) : k \in 1..Len(thought_tree)})
             first == Min({k \in 1..Len(thought_tree) : SortKey(thought_tree[k]) = top})
         IN  <<thought_tree[first]>>
             \o SortedThoughts(SubSeq(thought_tree, 1, first - 1)
                               \o SubSeq(thought_tree, first + 1, Len(thought_tree)))

\* sorted() raises TypeError on scores of both kinds; any(score >= 0.7) is
\* evaluated below max_depth only and raises on a str score
search_and_prune_raises(state) ==
    LET thought_tree == Get(state, "thought_tree", <<>>)
        nums == {k \in 1..Len(thought_tree) : IsNum(thought_tree[k].score)}
        strs == {k \in 1..Len(thought_tree) : ~IsNum(thought_tree[k].score)}
    IN  \/ nums # {} /\ strs # {}
        \/ /\ strs # {}
           /\ Get(state, "current_depth", 0) < Get(state, "max_depth", TOT_CONFIG.max_depth)

Take(s, n) == SubSeq(s, 1, IF Len(s) < n THEN Len(s) ELSE n)

search_and_prune_node(state) ==
    LET thought_tree == Get(state, "thought_tree", <<>>)
        current_depth == Get(state, "current_depth", 0)
        max_depth == Get(state, "max_depth", TOT_CONFIG.max_depth)
        sorted_thoughts == SortedThoughts(thought_tree)
        evaluation_mode == Get(state, "evaluation_mode", FALSE)
    IN  IF Len(thought_tree) = 0
        THEN Updated(state, [best_thoughts |-> <<>>,
                             final_solution |-> Text("No thoughts generated", <<>>, <<>>)])
        ELSE IF \/ current_depth >= max_depth
                \/ \E k \in 1..Len(sorted_thoughts) :
                       sorted_thoughts[k].score.num >= TOT_CONFIG.evaluation_threshold
        THEN Updated(state,
                 [best_thoughts |-> Take(sorted_thoughts, TOT_CONFIG.top_k_selection),
                  final_solution |-> Text(IF evaluation_mode THEN "" ELSE "Best approach: ",
                                          sorted_thoughts[1].path, <<>>),
                  evaluation_mode |-> evaluation_mode])
        ELSE Updated(state,
                 [best_thoughts |-> Take(sorted_thoughts, TOT_CONFIG.top_k_selection),
                  final_solution |-> Text("", <<>>, <<>>),
                  evaluation_mode |-> evaluation_mode])

\* what happens inside solution_synthesis_node: the model calls in evaluation
\* mode (the answer, the answer after tool calls, the fallback after an
\* exception, the fallback failing too), the two tools in demo mode
SynthesisRuns ==
    {[first |-> c[1], final |-> c[2], fallback |-> c[3], date |-> d, weather |-> w] :
        c \in {<<"answer", "none", "none">>, <<"tool_calls", "answer", "none">>,
               <<"tool_calls", "raises", "answer">>, <<"raises", "none", "answer">>,
               <<"raises", "none", "raises">>},
        d \in {"2026-11-05", "Error: date"},
        w \in {"sunny"}}

\* response.content of the model's answer
AnswerContent == <<" ", "4", "0", "8">>

\* concise_output of solution_synthesis_node
ConciseOutput(state, run) ==
    LET original_query == Get(state, "original_query", <<>>)
        best_thoughts == Get(state, "best_thoughts", <<>>)
    IN  IF Get(state, "evaluation_mode", FALSE)
        THEN IF run.first = "raises" /\ run.fallback = "raises"
             THEN Text("Error generating answer", <<>>, <<>>)
             ELSE Text("", <<>>, Strip(AnswerContent))
        ELSE IF Contains(Lower(original_query), <<"d", "a", "t", "e">>)
                /\ Contains(Lower(original_query), <<"w", "e", "a", "t", "h", "e", "r">>)
        THEN Text("Today is", <<>>, <<run.date, run.weather>>)
        ELSE IF Len(best_thoughts) > 0
        THEN Text("Best approach: ", best_thoughts[1].path, <<>>)
        ELSE Text("Completed exploration", <<>>, <<>>)

solution_synthesis_node(state, run) ==
    LET evaluation_mode == Get(state, "evaluation_mode", FALSE)
        concise_output == ConciseOutput(state, run)
    IN  [messages |-> Append(state.messages,
                             [role |-> "assistant", content |-> concise_output]),
         original_query |-> Get(state, "original_query", <<>>),
         thought_tree |-> Get(state, "thought_tree", <<>>),
         current_depth |-> Get(state, "current_depth", 0),
         max_depth |-> Get(state, "max_depth", TOT_CONFIG.max_depth),
         best_thoughts |-> Get(state, "best_thoughts", <<>>),
         final_solution |-> IF evaluation_mode THEN concise_output
                            ELSE Get(state, "final_solution", Text("", <<>>, <<>>)),
         output |-> concise_output,
         evaluation_mode |-> evaluation_mode]

route_after_generation(state) ==
    IF Len(Get(state, "thought_tree", <<>>)) = 0 THEN "solution_synthesis" ELSE "evaluation"

route_after_search(state) ==
    IF \/ Truthy(Get(state, "final_solution", Text("", <<>>, <<>>)))
       \/ Get(state, "current_depth", 0) >= Get(state, "max_depth", TOT_CONFIG.max_depth)
    THEN "solution_synthesis"
    ELSE "thought_generation"

\* the input of an invocation: the evaluator passes evaluation_mode = True,
\* the demo passes the messages only
InitToT ==
    /\ tot_node = "thought_generation"
    /\ tot_state \in {[messages |-> <<[role |-> "user", content |-> q]>>] :
                         q \in {<<"2", "+", "2">>, <<"d", "a", "t", "e", " ", "w", "e", "a", "t", "h", "e", "r">>}}
                     \cup
                     {[messages |-> <<[role |-> "user", content |-> q]>>, evaluation_mode |-> TRUE] :
                         q \in {<<"2", "+", "2">>}}
    /\ tot_visits = <<>>
    /\ test_tasks = <<>>
    /\ include_robustness = FALSE
    /\ delay_between_tasks = 0
    /\ MultiIdle(<<"ReAct">>)
    /\ EvalIdle
    /\ JudgeIdle
    /\ DegrIdle
    /\ CmpIdle
    /\ TaskIdle
    /\ RateIdle
    /\ StatefulIdle

\* thought_generation, then the conditional edge route_after_generation
ThoughtGeneration ==
    /\ tot_node = "thought_generation"
    /\ IF thought_generation_raises(tot_state)
       THEN tot_node' = "raised" /\ tot_state' = tot_state
       ELSE \E responses \in GenerationRuns(Len(ContextPaths(tot_state))) :
               /\ tot_state' = thought_generation_node(tot_state, responses)
               /\ tot_node' = route_after_generation(thought_generation_node(tot_state, responses))
    /\ tot_visits' = Append(tot_visits, "thought_generation")
    /\ UNCHANGED <<evalVars, judgeVars, degrVars, multiVars, cmpVars, taskVars, rateVars,
                   statefulVars>>

\* evaluation, then the conditional edge route_after_evaluation
Evaluation ==
    /\ tot_node = "evaluation"
    /\ IF evaluation_raises(tot_state)
       THEN tot_node' = "raised" /\ tot_state' = tot_state
       ELSE \E responses \in EvaluationRuns(Len(tot_state.thought_tree)) :
               /\ tot_state' = evaluation_node(tot_state, responses)
               /\ tot_node' = "search_and_prune"
    /\ tot_visits' = Append(tot_visits, "evaluation")
    /\ UNCHANGED <<evalVars, judgeVars, degrVars, multiVars, cmpVars, taskVars, rateVars,
                   statefulVars>>

\* search_and_prune, then the conditional edge route_after_search
SearchAndPrune ==
    /\ tot_node = "search_and_prune"
    /\ IF search_and_prune_raises(tot_state)
       THEN tot_node' = "raised" /\ tot_state' = tot_state
       ELSE /\ tot_state' = search_and_prune_node(tot_state)
            /\ tot_node' = route_after_search(search_and_prune_node(tot_state))
    /\ tot_visits' = Append(tot_visits, "search_and_prune")
    /\ UNCHANGED <<evalVars, judgeVars, degrVars, multiVars, cmpVars, taskVars, rateVars,
                   statefulVars>>

\* solution_synthesis, then the edge to END
SolutionSynthesis ==
    /\ tot_node = "solution_synthesis"
    /\ \E run \in SynthesisRuns :
        tot_state' = solution_synthesis_node(tot_state, run)
    /\ tot_node' = "END"
    /\ tot_visits' = Append(tot_visits, "solution_synthesis")
    /\ UNCHANGED <<evalVars, judgeVars, degrVars, multiVars, cmpVars, taskVars, rateVars,
                   statefulVars>>

NextToT ==
    \/ ThoughtGeneration
    \/ Evaluation
    \/ SearchAndPrune
    \/ SolutionSynthesis

SpecToT == InitToT /\ [][NextToT]_vars

\* ------------------------------------------------------------------------
\* Properties
\* ------------------------------------------------------------------------

\* the invocations of one pass, in order
InvocationsOf(v) ==
    LET Sel(e) == e.ev = "invoke" /\ e.variant = v IN SelectSeq(trace, Sel)

\* a pass of _run_tasks has run to its end
PassFinished == pc = "run_tasks" /\ i = Len(tasks)

\* C1: in either pass _run_tasks produces one result per task, in task order;
\* a task during which anything raised has success = false, error = the
\* exception's message and judge_success = false; and when the pass ends every
\* task of the list has been invoked, whichever tasks raised.
C1_FailedTaskIsRecorded ==
    /\ Len(results) = i
    /\ Len(raised) = i
    /\ \A k \in 1..Len(results) :
          /\ results[k].task_id = tasks[k].id
          /\ raised[k].some =>
                /\ results[k].success = FALSE
                /\ results[k].error = raised[k]
                /\ results[k].judge_success = FALSE
    /\ PassFinished =>
          /\ Len(results) = Len(tasks)
          /\ Len(InvocationsOf(variant)) = Len(tasks)
          /\ \A k \in 1..Len(tasks) : InvocationsOf(variant)[k].task_id = tasks[k].id

\* C1 witness: a finished pass in which the agent raised for one task, the
\* judge raised for another, and a later task was still run successfully
C1_Witness ==
    /\ PassFinished
    /\ \E a, b, c \in 1..Len(results) :
          /\ a < c
          /\ b < c
          /\ raised[a] = Some("agent failure")
          /\ raised[b] = Some("SchemaError")
          /\ results[c].success

\* C2: Judge.evaluate never raises, whatever the mode, output, ground truth
\* and schema.
C2_JudgeNeverRaises ==
    /\ j_strict.some => ~j_strict.v.raised
    /\ j_lenient.some => ~j_lenient.v.raised

\* C3: whenever the strict judgment passes, the lenient judgment of the same
\* arguments passes too.
C3_LenientPassesWhenStrictPasses ==
    (j_strict.some /\ j_lenient.some /\ j_strict.v.passed) => j_lenient.v.passed

\* C4: in exact mode with ground truth "408", "17*24=408" passes leniently and
\* fails strictly, and "408" passes both ways.
C4_NumberFoundAfterOtherNumbers ==
    (j_strict.some /\ j_lenient.some) =>
        /\ j_in = Case(<<"1", "7", "*", "2", "4", "=", "4", "0", "8">>, Some([str |-> Str408]),
                       [mode |-> "exact"], None)
              => j_lenient.v.passed /\ ~j_strict.v.passed
        /\ j_in = Case(Str408, Some([str |-> Str408]), [mode |-> "exact"], None)
              => j_lenient.v.passed /\ j_strict.v.passed

\* C5: in json and regex mode the lenient call returns the same pair as the
\* strict call.
C5_LenientSameInJsonAndRegex ==
    (j_strict.some /\ j_lenient.some /\ Get(j_in.judge_config, "mode", "exact") \in {"json", "regex"})
        => j_strict.v = j_lenient.v

\* the result of a pass for a task id
ResultFor(rs, id) == rs[CHOOSE k \in 1..Len(rs) : rs[k].task_id = id]

\* C6: after evaluate_pattern, task_robustness_scores has an entry exactly for
\* the ids with a result in both passes: 1 when both strict judgments passed,
\* 1/2 when only the original passed, 0 whenever the original did not pass.
C6_PerTaskRobustness ==
    pc = "done" =>
        LET scores == metrics.robustness.task_robustness_scores
            both == {id \in Ids(original_results) : id \in Ids(perturbed_results)}
        IN  /\ DOMAIN scores = both
            /\ \A id \in both :
                  LET o == ResultFor(original_results, id)
                      p == ResultFor(perturbed_results, id)
                  IN  /\ (o.judge_success /\ p.judge_success) => scores[id] = <<1, 1>>
                      /\ (o.judge_success /\ ~p.judge_success) => scores[id] = <<1, 2>>
                      /\ ~o.judge_success => scores[id] = <<0, 1>>

\* C6 witness: a finished run with an id scored 1/2, an id scored 0 although
\* its perturbed run passed, and an id of the original pass without an entry
C6_Witness ==
    /\ pc = "done"
    /\ LET scores == metrics.robustness.task_robustness_scores
       IN  /\ \E id \in DOMAIN scores : scores[id] = <<1, 2>>
           /\ \E id \in DOMAIN scores :
                 scores[id] = <<0, 1>> /\ ResultFor(perturbed_results, id).judge_success
           /\ \E id \in Ids(original_results) : id \notin DOMAIN scores

\* C7: calculate_degradation sets degradation_percentage to
\* (original - perturbed) / original * 100, and to 0 when original is 0; for
\* 9/10 and 7/10 that is 200/9.
C7_Degradation ==
    d_done =>
        LET o == d_metrics.original_success_rate
            q == d_metrics.perturbed_success_rate
            g == d_metrics.degradation_percentage
        IN  /\ o[1] = 0 => g = <<0, 1>>
            /\ o[1] # 0 =>
                  /\ g[2] > 0
                  /\ GCD(Abs(g[1]), g[2]) = 1
                  /\ g[1] * q[2] * o[1] = 100 * (o[1] * q[2] - q[1] * o[2]) * g[2]
            /\ (o = <<9, 10>> /\ q = <<7, 10>>) => g = <<200, 9>>

\* C7 witness: the call was made on the rates 9/10 and 7/10
C7_Witness ==
    /\ d_done
    /\ d_metrics.original_success_rate = <<9, 10>>
    /\ d_metrics.perturbed_success_rate = <<7, 10>>
    /\ d_metrics.degradation_percentage = <<200, 9>>

\* the task declares at least one perturbation
Declares(t) ==
    /\ t.robustness.some
    /\ "perturbations" \in DOMAIN t.robustness.v
    /\ Len(t.robustness.v.perturbations) >= 1

StrictPasses(rs) == Cardinality({k \in 1..Len(rs) : rs[k].judge_success})

\* C8: after evaluate_pattern with the robustness pass, perturbed_success_rate
\* is (strict-passing perturbed results) / (tasks declaring a perturbation),
\* original_success_rate is (strict-passing original results) / (all tasks),
\* and degradation_percentage is computed from these two rates: 4 tasks all
\* passing, 2 perturbed of which 1 passes, give 1/2 and 50.
C8_RatesAndDegradation ==
    (pc = "done" /\ include_robustness) =>
        LET n == Len(test_tasks)
            nP == Cardinality({k \in 1..n : Declares(test_tasks[k])})
            op == StrictPasses(original_results)
            pp == StrictPasses(perturbed_results)
            o == metrics.robustness.original_success_rate
            q == metrics.robustness.perturbed_success_rate
            g == metrics.robustness.degradation_percentage
        IN  /\ n > 0 => o[1] * n = op * o[2]
            /\ nP > 0 => q[1] * nP = pp * q[2]
            /\ (nP > 0 /\ o[1] # 0) =>
                  g[1] * q[2] * o[1] = 100 * (o[1] * q[2] - q[1] * o[2]) * g[2]
            /\ (nP > 0 /\ o[1] = 0) => g = <<0, 1>>
            /\ (n = 4 /\ op = 4 /\ nP = 2 /\ pp = 1) =>
                  o = <<1, 1>> /\ q = <<1, 2>> /\ g = <<50, 1>>

\* C8 witness: 4 tasks all passing, 2 of them perturbed, 1 of those passing
C8_Witness ==
    /\ pc = "done"
    /\ include_robustness
    /\ Len(test_tasks) = 4
    /\ StrictPasses(original_results) = 4
    /\ Len(perturbed_results) = 2
    /\ StrictPasses(perturbed_results) = 1
    /\ metrics.robustness.perturbed_success_rate = <<1, 2>>
    /\ metrics.robustness.degradation_percentage = <<50, 1>>

\* the position of a task id in the suite
IndexOf(id) == CHOOSE k \in 1..Len(test_tasks) : test_tasks[k].id = id

\* C9: the robustness pass invokes the agent once for each task declaring a
\* perturbation, in suite order, with the task's first perturbation as the
\* prompt; a task declaring none is never invoked in that pass.
C9_FirstPerturbationOnly ==
    LET inv == InvocationsOf("perturbed")
    IN  /\ \A n \in 1..Len(inv) :
              LET t == test_tasks[IndexOf(inv[n].task_id)]
              IN  Declares(t) /\ inv[n].prompt = t.robustness.v.perturbations[1]
        /\ \A a, b \in 1..Len(inv) : a < b => IndexOf(inv[a].task_id) < IndexOf(inv[b].task_id)
        /\ (pc = "done" /\ include_robustness) =>
              \A k \in 1..Len(test_tasks) :
                  Declares(test_tasks[k]) => \E n \in 1..Len(inv) : inv[n].task_id = test_tasks[k].id
        /\ ~include_robustness => inv = <<>>

\* C9 witness: a finished robustness pass over a suite holding a task with two
\* perturbations, a task with an empty list and a task with none
C9_Witness ==
    /\ pc = "done"
    /\ include_robustness
    /\ Len(InvocationsOf("perturbed")) = 2
    /\ \E k \in 1..Len(test_tasks) :
          Declares(test_tasks[k]) /\ Len(test_tasks[k].robustness.v.perturbations) = 2
    /\ \E k \in 1..Len(test_tasks) :
          test_tasks[k].robustness.some
          /\ "perturbations" \in DOMAIN test_tasks[k].robustness.v
          /\ test_tasks[k].robustness.v.perturbations = <<>>
    /\ \E k \in 1..Len(test_tasks) : ~test_tasks[k].robustness.some

\* the original pass has been folded into the metrics
OriginalFolded == pc \in {"robustness", "done"} \/ variant = "perturbed"

\* C10: once the original pass is folded, success, efficiency and
\* controllability are the folds of the original results, and no later step
\* (the robustness pass, run or skipped) changes them or original_success_rate.
C10_RobustnessPassFrame ==
    /\ [](OriginalFolded =>
            /\ metrics.success = CollectSuccessMetrics(NewSuccessMetrics, original_results, test_tasks)
            /\ metrics.efficiency = CollectEfficiencyMetrics(NewEfficiencyMetrics, original_results)
            /\ metrics.controllability =
                  CollectControllabilityMetrics(NewControllabilityMetrics, original_results, test_tasks))
    /\ [][OriginalFolded =>
            /\ metrics'.success = metrics.success
            /\ metrics'.efficiency = metrics.efficiency
            /\ metrics'.controllability = metrics.controllability
            /\ metrics'.robustness.original_success_rate = metrics.robustness.original_success_rate]_vars

\* C10 witness: a finished robustness pass whose results differ from the
\* original pass and which wrote the robustness part
C10_Witness ==
    /\ pc = "done"
    /\ include_robustness
    /\ perturbed_results # <<>>
    /\ metrics.robustness.task_robustness_scores # EmptyMap
    /\ StrictPasses(perturbed_results) # StrictPasses(original_results)
    /\ metrics.success.total_tasks = Len(test_tasks)
    /\ Len(metrics.efficiency.latencies) > 0

\* position k holds the largest of the values and no earlier position does
FirstLargest(values, k) ==
    /\ \A n \in 1..Len(values) : FracLeq(values[n], values[k])
    /\ \A n \in 1..(k - 1) : values[n] # values[k]

\* position k holds the smallest of the values and no earlier position does
FirstSmallest(values, k) ==
    /\ \A n \in 1..Len(values) : FracLeq(values[k], values[n])
    /\ \A n \in 1..(k - 1) : values[n] # values[k]

\* the position of a key in the mapping compared
PositionOf(name) == CHOOSE k \in 1..Len(c_metrics) : c_metrics[k].name = name

\* C11: for a non-empty mapping compare_patterns names, per dimension, the
\* pattern with the extreme value (largest success_rate, smallest avg_latency,
\* smallest degradation_percentage, largest overall_controllability), and of
\* several patterns with exactly that value the first in the mapping's order.
C11_FirstExtremeIsReported ==
    (c_report.some /\ c_metrics # <<>>) =>
        /\ FirstLargest(SuccessRates(c_metrics),
                        PositionOf(c_report.v.success_dimension.best_pattern))
        /\ FirstSmallest(Latencies(c_metrics),
                         PositionOf(c_report.v.efficiency_dimension.fastest_pattern))
        /\ FirstSmallest(Degradations(c_metrics),
                         PositionOf(c_report.v.robustness_dimension.most_robust_pattern))
        /\ FirstLargest(ControllabilityValues(c_metrics),
                        PositionOf(c_report.v.controllability_dimension.most_controllable_pattern))

\* two patterns tie on success rate, latency and controllability, the second
\* degrades less: the first is reported three times, the second once
C11_Witness ==
    /\ c_report.some
    /\ Len(c_metrics) = 2
    /\ SuccessRates(c_metrics)[1] = SuccessRates(c_metrics)[2]
    /\ Latencies(c_metrics)[1] = Latencies(c_metrics)[2]
    /\ c_metrics[1].metrics.efficiency.latencies # c_metrics[2].metrics.efficiency.latencies
    /\ ControllabilityValues(c_metrics)[1] = ControllabilityValues(c_metrics)[2]
    /\ c_metrics[1].metrics.controllability # c_metrics[2].metrics.controllability
    /\ FracLt(Degradations(c_metrics)[2], Degradations(c_metrics)[1])
    /\ c_report.v.success_dimension.best_pattern = "ReAct"
    /\ c_report.v.efficiency_dimension.fastest_pattern = "ReAct"
    /\ c_report.v.controllability_dimension.most_controllable_pattern = "ReAct"
    /\ c_report.v.robustness_dimension.most_robust_pattern = "Sequential"

\* the invocations and judged results of the trace, in order
Steps == LET IsStep(e) == e.ev \in {"invoke", "judged"} IN SelectSeq(trace, IsStep)

\* the position of a pattern in the mapping evaluated
PatternPosition(name) == CHOOSE k \in 1..Len(patterns) : patterns[k] = name

\* C12: execution is strictly sequential.  An invocation is in flight exactly
\* while the last invocation of the trace has no judged result yet, so at most
\* one is; every invocation is followed by its own judged result before the
\* next invocation starts; within a pattern no original-pass invocation
\* follows a robustness-pass invocation; and no invocation of a pattern
\* follows an invocation of a later pattern of the mapping.
C12_StrictlySequential ==
    LET steps == Steps
    IN  /\ \A k \in 1..Len(steps) :
              IF k % 2 = 1 THEN steps[k].ev = "invoke"
              ELSE steps[k] = [steps[k - 1] EXCEPT !.ev = "judged"]
        /\ (pc = "invoking") <=> (Len(steps) % 2 = 1)
        /\ \A a \in 1..Len(steps) : \A b \in (a + 1)..Len(steps) :
              /\ PatternPosition(steps[a].pattern) <= PatternPosition(steps[b].pattern)
              /\ steps[a].pattern = steps[b].pattern =>
                    ~(steps[a].variant = "perturbed" /\ steps[b].variant = "original")

\* two patterns were evaluated on two tasks, each with its robustness pass:
\* six invocations, the comparison computed
C12_Witness ==
    /\ pc = "returned"
    /\ comparison.some
    /\ Len(patterns) = 2
    /\ Len(test_tasks) = 2
    /\ LET steps == Steps
       IN  /\ Len(steps) = 12
           /\ steps[5].variant = "perturbed" /\ steps[5].pattern = patterns[1]
           /\ steps[7].variant = "original" /\ steps[7].pattern = patterns[2]

\* the events of one pass, in order
PassEvents(v) == LET InPass(e) == e.variant = v IN SelectSeq(trace, InPass)

\* the tasks a pass iterates
PassTasks(v) == IF v = "original" THEN test_tasks ELSE PerturbedTasks(test_tasks)

\* _run_tasks has returned for the pass
PassReturned(v) ==
    IF v = "original" THEN OriginalFolded \/ (PassFinished /\ variant = "original")
    ELSE variant = "perturbed" /\ (PassFinished \/ pc = "done")

\* the pauses of a pass
Pauses(v) == LET IsPause(e) == e.ev = "sleep" /\ e.variant = v IN SelectSeq(trace, IsPause)

\* C13: with delay_between_tasks > 0 the events of a pass are invocation,
\* judged result, pause, invocation, judged result, pause, ...: every pause
\* follows the judged result of task k and, once the pass goes on, precedes the
\* invocation of task k + 1; a returned pass over n > 0 tasks holds exactly
\* n - 1 pauses and does not end with one.  With delay_between_tasks <= 0 there
\* is no pause at all.
C13_PausesBetweenTasks ==
    \A v \in {"original", "perturbed"} :
        LET events == PassEvents(v)
            pauses == Pauses(v)
        IN  /\ delay_between_tasks <= 0 => pauses = <<>>
            /\ delay_between_tasks > 0 =>
                  /\ \A k \in 1..Len(events) :
                        /\ (events[k].ev = "sleep") <=> (k % 3 = 0)
                        /\ k % 3 = 2 => /\ events[k].ev = "judged"
                                         /\ events[k].task_id = PassTasks(v)[(k + 1) \div 3].id
                        /\ k % 3 = 1 => /\ events[k].ev = "invoke"
                                         /\ events[k].task_id = PassTasks(v)[(k + 2) \div 3].id
                  /\ (PassReturned(v) /\ PassTasks(v) # <<>>) =>
                        /\ Len(pauses) = Len(PassTasks(v)) - 1
                        /\ Len(events) = 3 * Len(PassTasks(v)) - 1

\* a pass over three tasks has returned after two pauses
C13_Witness ==
    /\ delay_between_tasks > 0
    /\ Len(test_tasks) = 3
    /\ PassFinished /\ variant = "original"
    /\ Len(Pauses("original")) = 2
    /\ PassEvents("original")[3].ev = "sleep"
    /\ PassEvents("original")[6].ev = "sleep"
    /\ Len(PassEvents("original")) = 8

\* the state an invocation returned: the response itself, or what it holds
\* under "values"
StateOf(response) == IF "values" \in DOMAIN response THEN response.values ELSE response

\* the last message's content, or the plain output of a state without messages
LastContentOrOutput(state) ==
    IF Get(state, "messages", <<>>) # <<>>
    THEN state.messages[Len(state.messages)].content
    ELSE Get(state, "output", <<>>)

\* C14: the output recorded for an invocation that returned is the content of
\* the last message of the returned state, and the state's plain output string
\* when the state has no messages.
C14_OutputIsLastMessageOrPlainOutput ==
    \A k \in 1..Len(results) :
        returned[k].some => results[k].output = LastContentOrOutput(StateOf(returned[k].v))

ValidButWrong(task, r) ==
    /\ task.schema.some /\ task.schema.v # EmptyMap
    /\ task.ground_truth.some
    /\ r.success
    /\ ExtractAndParseJson(r.output).ok
    /\ CheckSchema(ExtractAndParseJson(r.output).v, task.schema) = "ok"
    /\ ~PyEq(ExtractAndParseJson(r.output).v, task.ground_truth.v.json)

\* C16: schema compliance does not depend on the value.  Once the original pass
\* is folded, every result whose output parses and satisfies the declared schema
\* but differs from the ground truth is flagged schema compliant, is counted in
\* schema_compliant_tasks, and so enters schema_compliance_rate.
C16_ValidButWrongIsCompliant ==
    OriginalFolded =>
        /\ \A k \in 1..Len(original_results) :
              ValidButWrong(test_tasks[k], original_results[k]) =>
                  original_results[k].schema_compliant
        /\ metrics.controllability.schema_compliant_tasks >=
              Cardinality({k \in 1..Len(original_results) :
                              ValidButWrong(test_tasks[k], original_results[k])})
        /\ FracLeq(Frac(Cardinality({k \in 1..Len(original_results) :
                                        ValidButWrong(test_tasks[k], original_results[k])}),
                        Max({1, metrics.controllability.total_json_tasks})),
                   schema_compliance_rate(metrics.controllability))

\* the components of overall_controllability whose denominator is positive,
\* given the number of successfully executed tasks
ApplicableScores(m, executed) ==
    (IF m.total_json_tasks > 0 THEN <<schema_compliance_rate(m)>> ELSE <<>>)
    \o (IF m.total_tool_tasks > 0 THEN <<tool_policy_compliance_rate(m)>> ELSE <<>>)
    \o (IF executed > 0 THEN <<m.format_compliance_rate>> ELSE <<>>)
    \o (IF FracLt(Zero, m.avg_interpretability_score)
        THEN <<FracDiv(m.avg_interpretability_score, <<10, 1>>)>> ELSE <<>>)

\* C17: once the original pass is folded, overall_controllability is the mean of
\* the applicable components only: the schema rate with a json task, the tool
\* rate with a tool task, format_compliance_rate with at least one successfully
\* executed task, interpretability / 10 with a score.
C17_MeanOfApplicableComponents ==
    OriginalFolded =>
        overall_controllability(metrics.controllability)
            = MeanOrZero(ApplicableScores(metrics.controllability,
                                          Count([k \in DOMAIN original_results |->
                                                    original_results[k].success])))

\* the PatternMetrics whose original pass is folded: those stored in the
\* results dict and, past the fold, the one of the running evaluate_pattern
FoldedMetrics ==
    {all_results[k].metrics : k \in 1..Len(all_results)}
    \cup (IF pc \in {"robustness", "done"} \/ (pc # "idle" /\ variant = "perturbed")
          THEN {metrics} ELSE {})

\* C18: for every pattern, once the original pass is folded,
\* tool_policy_compliant_tasks equals total_tool_tasks, the number of tasks with
\* a plan, whatever the agent did; tool_policy_compliance_rate is 1 with such a
\* task and 0 without.
C18_ToolPolicyAlwaysCompliant ==
    \A m \in FoldedMetrics :
        /\ m.controllability.total_tool_tasks =
              Cardinality({k \in 1..Len(test_tasks) : test_tasks[k].plan.some})
        /\ m.controllability.tool_policy_compliant_tasks = m.controllability.total_tool_tasks
        /\ tool_policy_compliance_rate(m.controllability) =
              IF \E k \in 1..Len(test_tasks) : test_tasks[k].plan.some THEN <<1, 1>> ELSE Zero

\* of two tool tasks the first passed under the first pattern and failed under
\* the second, the other failed to execute, and both patterns have rate 1
C18_Witness ==
    /\ pc = "returned"
    /\ Len(all_results) = 2
    /\ all_results[1].metrics.success.successful_tasks = 1
    /\ all_results[2].metrics.success.successful_tasks = 0
    /\ \A k \in 1..2 :
          /\ all_results[k].metrics.controllability.total_tool_tasks = 2
          /\ all_results[k].metrics.success.failed_tasks >= 1
          /\ tool_policy_compliance_rate(all_results[k].metrics.controllability) = <<1, 1>>

\* the json-mode verdict as stated: parse, then the schema, then the ground truth
StatedJsonVerdict(parsed, ground_truth, judge_config, schema) ==
    IF ~parsed.ok THEN FALSE
    ELSE IF schema.some /\ validate(parsed.v, schema.v) = "ValidationError" THEN FALSE
    ELSE IF ~ground_truth.some THEN TRUE
    ELSE IF "obj" \in DOMAIN parsed.v /\ "obj" \in DOMAIN ground_truth.v.json
         THEN PyEq([obj |-> WithoutKeys(parsed.v.obj, Get(judge_config, "ignore_fields", {}))],
                   [obj |-> WithoutKeys(ground_truth.v.json.obj,
                                        Get(judge_config, "ignore_fields", {}))])
    ELSE PyEq(parsed.v, ground_truth.v.json)

\* C19: a json-mode call returns a verdict, decided in this order: an output no
\* parsing stage can parse fails; else a parsed value that violates the given
\* schema fails; else, with a ground truth, the verdict is the equality of value
\* and ground truth, the ignore_fields keys dropped from both when both are
\* dicts and not otherwise; else it passes.
C19_JsonVerdictOrder ==
    (j_strict.some /\ Get(j_in.judge_config, "mode", "exact") = "json") =>
        /\ ~j_strict.v.raised
        /\ j_strict.v.passed = StatedJsonVerdict(ExtractAndParseJson(j_in.output),
                                                 j_in.ground_truth, j_in.judge_config,
                                                 j_in.schema)

\* r is num / den for den > 0, and 0 for den = 0
IsRate(r, num, den) ==
    IF den = 0 THEN r = Zero ELSE r[2] > 0 /\ r[1] * den = num * r[2]

\* C20: every rate accessor returns its numerator over its denominator, and 0
\* when the denominator is 0; avg_latency, median_latency and avg_total_tokens
\* return 0 on empty sample lists.  None of the calls fails.
C20_RateAccessors ==
    m_out.some =>
        /\ "success" \in DOMAIN m_in.v =>
              /\ IsRate(m_out.v.success_rate, m_in.v.success.successful_tasks,
                        m_in.v.success.total_tasks)
              /\ IsRate(m_out.v.lenient_success_rate, m_in.v.success.lenient_successful_tasks,
                        m_in.v.success.total_tasks)
              /\ IsRate(m_out.v.failure_rate, m_in.v.success.failed_tasks,
                        m_in.v.success.total_tasks)
        /\ "controllability" \in DOMAIN m_in.v =>
              /\ IsRate(m_out.v.schema_compliance_rate,
                        m_in.v.controllability.schema_compliant_tasks,
                        m_in.v.controllability.total_json_tasks)
              /\ IsRate(m_out.v.tool_policy_compliance_rate,
                        m_in.v.controllability.tool_policy_compliant_tasks,
                        m_in.v.controllability.total_tool_tasks)
        /\ "efficiency" \in DOMAIN m_in.v =>
              /\ m_in.v.efficiency.latencies = <<>> =>
                    m_out.v.avg_latency = Zero /\ m_out.v.median_latency = Zero
              /\ (m_in.v.efficiency.input_tokens = <<>>
                  /\ m_in.v.efficiency.output_tokens = <<>>) =>
                    m_out.v.avg_total_tokens = Zero

\* 8 of 10 tasks passed: the success rate is 4/5 and the failure rate 1/5
C20_Witness ==
    /\ m_out.some
    /\ "success" \in DOMAIN m_in.v
    /\ m_in.v.success.total_tasks = 10
    /\ m_in.v.success.successful_tasks = 8
    /\ m_in.v.success.failed_tasks = 2
    /\ m_out.v.success_rate = <<4, 5>>
    /\ m_out.v.failure_rate = <<1, 5>>

\* t is digits, or digits "." digits
IsNumeral(t) ==
    /\ t # <<>>
    /\ \A k \in 1..Len(t) : t[k] \in Digits \cup {"."}
    /\ Cardinality({k \in 1..Len(t) : t[k] = "."}) <= 1
    /\ t[1] # "." /\ t[Len(t)] # "."

\* t is YYYY-MM-DD
IsIsoDate(t) ==
    /\ Len(t) = 10
    /\ \A k \in 1..10 : IF k \in {5, 8} THEN t[k] = "-" ELSE t[k] \in Digits

\* the spans <<from, to>> of s that hold a text of the given shape between
\* two word boundaries
Standalone(s, Shape(_)) ==
    {sp \in (1..Len(s)) \X (1..Len(s)) :
        /\ sp[1] <= sp[2]
        /\ Shape(SubSeq(s, sp[1], sp[2]))
        /\ Boundary(s, sp[1])
        /\ Boundary(s, sp[2] + 1)}

\* the first span, and the longest among those starting there
FirstSpan(spans) ==
    CHOOSE sp \in spans : \A other \in spans :
        sp[1] < other[1] \/ (sp[1] = other[1] /\ sp[2] >= other[2])

\* the text of the first span when there is one, else the output
FirstOr(s, spans, output) ==
    IF spans = {} THEN output ELSE SubSeq(s, FirstSpan(spans)[1], FirstSpan(spans)[2])

\* the text a lenient exact-mode call compares, by the shape of the ground truth
SelectedText(output, ground_truth, g) ==
    IF ~ground_truth.some THEN output
    ELSE IF IsNumeral(g) THEN FirstOr(output, Standalone(output, IsNumeral), output)
    ELSE IF IsIsoDate(g) THEN FirstOr(output, Standalone(output, IsIsoDate), output)
    ELSE IF " " \notin {g[k] : k \in 1..Len(g)} /\ Len(g) < 30
         THEN IF Strip(RemoveLeadIns(Strip(output), 1)) = <<>> THEN output
              ELSE RStripPunct(FirstWord(RemoveLeadIns(Strip(output), 1)))
    ELSE output

C22_ReportsReadSummaryKeys ==
    /\ (c_rendered.some /\ c_metrics # <<>>) => ~c_rendered.v.result.raised
    /\ (c_report.some /\ c_metrics # <<>>) =>
          /\ Len(c_report.v.summary_table) = Len(c_metrics)
          /\ \A k \in 1..Len(c_metrics) :
                c_report.v.summary_table[k].pattern = c_metrics[k].name

\* the results of the original pass whose execution completed
Executed == LET Completed(r) == r.success IN SelectSeq(original_results, Completed)

RECURSIVE SumNat(_)
SumNat(xs) == IF xs = <<>> THEN 0 ELSE Head(xs) + SumNat(Tail(xs))

\* the five sample lists hold, entry by entry, the figures of the results ok
SamplesOf(e, ok) ==
    /\ e.latencies = [k \in 1..Len(ok) |-> ok[k].latency]
    /\ e.input_tokens = [k \in 1..Len(ok) |-> ok[k].input_tokens]
    /\ e.output_tokens = [k \in 1..Len(ok) |-> ok[k].output_tokens]
    /\ e.step_counts = [k \in 1..Len(ok) |-> ok[k].step_count]
    /\ e.tool_call_counts = [k \in 1..Len(ok) |-> ok[k].tool_call_count]
    /\ IsRate(avg_total_tokens(e),
              SumNat([k \in 1..Len(ok) |-> ok[k].input_tokens + ok[k].output_tokens]), Len(ok))

\* C23: after the fold the five efficiency sample lists have one entry per
\* original-pass result with success = true, entry k of each list taken from
\* the same result; failed executions and the robustness pass add no sample,
\* and avg_total_tokens is the mean of input + output per task.
C23_EfficiencySamplesAligned ==
    OriginalFolded => SamplesOf(metrics.efficiency, Executed)

\* a finished evaluation with a robustness pass, a failed execution and two
\* completed ones of different durations
C23_Witness ==
    /\ pc = "done"
    /\ perturbed_results # <<>>
    /\ \E k \in 1..Len(original_results) : ~original_results[k].success
    /\ Len(metrics.efficiency.latencies) = 2
    /\ metrics.efficiency.latencies[1] # metrics.efficiency.latencies[2]
    /\ Len(metrics.efficiency.output_tokens) = 2

\* the agent invocations of the run so far
Invocations == LET IsInvoke(e) == e.ev = "invoke" IN SelectSeq(trace, IsInvoke)

\* the number of tasks of the suite that declare a perturbation
Declaring == Cardinality({k \in 1..Len(test_tasks) : Declares(test_tasks[k])})

\* C24: if no agent invocation stays in flight forever, evaluate_pattern
\* returns; it has then invoked the agent once per task, and once more per
\* task declaring a perturbation when include_robustness is set.  A run that
\* does not return has an invocation that never completes.
C24_TerminatesUnlessAgentHangs ==
    /\ ([]<>(pc # "invoking")) => <>(pc = "done")
    /\ [](pc = "done" =>
            Len(Invocations) = Len(test_tasks) + (IF include_robustness THEN Declaring ELSE 0))

\* a finished run with a robustness pass of one invocation after two, one of
\* which raised
C24_Witness ==
    /\ pc = "done"
    /\ include_robustness
    /\ Len(test_tasks) = 2
    /\ Len(Invocations) = 3
    /\ \E k \in 1..Len(original_results) : ~original_results[k].success

\* the positions of the agent invocations in the trace
InvokePositions == {k \in 1..Len(trace) : trace[k].ev = "invoke"}

\* C25: with delay_between_tasks > 0 a pause lies between every two
\* consecutive agent invocations of a run: within a pass, between the original
\* and the robustness pass, and between one pattern and the next.
C25_PauseBetweenAnyTwoInvocations ==
    delay_between_tasks > 0 =>
        \A a, b \in InvokePositions :
            a < b => \E k \in (a + 1)..(b - 1) : trace[k].ev = "sleep"

\* the original-pass results of schema-declaring tasks that passed the strict judgment
StrictlyPassedSchemaResults ==
    {k \in 1..Len(original_results) :
        /\ test_tasks[IndexOf(original_results[k].task_id)].schema.some
        /\ original_results[k].success
        /\ original_results[k].judge_success}

\* C26: schema_compliant_tasks counts no schema-declaring task whose execution
\* failed: it is at most the number of schema-declaring tasks whose strict
\* judgment passed.
C26_FailedExecutionIsNotCompliant ==
    OriginalFolded =>
        metrics.controllability.schema_compliant_tasks <= Cardinality(StrictlyPassedSchemaResults)

\* the run has no robustness pass: it was not asked for, or no task declares a
\* perturbation
NoRobustnessPass == ~include_robustness \/ \A k \in 1..Len(test_tasks) : ~Declares(test_tasks[k])

\* C27: when the robustness pass is skipped or no task declares a
\* perturbation, evaluate_pattern returns with original_success_rate set and
\* the rest of RobustnessMetrics as constructed (perturbed rate 0, degradation
\* 0, no per-task score), having invoked the agent for the original pass only.
C27_SkippedRobustnessLeavesDefaults ==
    (pc = "done" /\ NoRobustnessPass) =>
        /\ IsRate(metrics.robustness.original_success_rate, StrictPasses(original_results),
                  Len(original_results))
        /\ metrics.robustness.perturbed_success_rate = Zero
        /\ metrics.robustness.degradation_percentage = Zero
        /\ metrics.robustness.task_robustness_scores = EmptyMap
        /\ perturbed_results = <<>>
        /\ \A k \in 1..Len(trace) : trace[k].variant = "original"
        /\ Cardinality({k \in 1..Len(trace) : trace[k].ev = "invoke"}) = Len(test_tasks)

\* a run with include_robustness set on two tasks without perturbations, one
\* of which passed
C27_Witness ==
    /\ pc = "done"
    /\ include_robustness
    /\ NoRobustnessPass
    /\ Len(test_tasks) = 2
    /\ metrics.robustness.original_success_rate = <<1, 2>>

\* the stored patterns with at least one latency sample
Measured == {k \in 1..Len(all_results) : all_results[k].metrics.efficiency.latencies # <<>>}

\* C28: when some pattern executed a task successfully, the pattern reported
\* as fastest has a latency sample: a pattern without a successful execution
\* is not preferred to one with a measured latency.
C28_FastestPatternWasMeasured ==
    (comparison.some /\ Measured # {}) =>
        \E k \in Measured :
            all_results[k].name = comparison.v.efficiency_dimension.fastest_pattern


\* C29: in one invocation of graph_pattern_stateful whose model responses lead
\* to no tool node, adaptive_processor runs at most max_retries + 1 times (4
\* with the default 3): route_after_processing sends the graph back to it only
\* for a pending retry below the limit, and otherwise on to validator and END.
C29_AdaptiveProcessorRunsBounded ==
    /\ s_node # "tools"
    /\ Runs("adaptive_processor") <= Get(s_state, "max_retries", 3) + 1


\* the number of times a node of graph_pattern_tree_of_thoughts has run
ToTRuns(node) == Len(SelectSeq(tot_visits, LAMBDA n : n = node))

\* C30: whatever thoughts and scores the model calls produce, failing calls
\* included, current_depth grows by one per thought_generation round and stays
\* within max_depth (3), the cycle thought_generation -> evaluation ->
\* search_and_prune is traversed at most max_depth times, and the invocation
\* does not stop before solution_synthesis and END.
C30_TreeOfThoughtsTerminates ==
    /\ Get(tot_state, "current_depth", 0) = ToTRuns("thought_generation")
    /\ Get(tot_state, "current_depth", 0) <= TOT_CONFIG.max_depth
    /\ ToTRuns("search_and_prune") <= TOT_CONFIG.max_depth
    /\ tot_node # "raised"

====
